---- MODULE Spec2Model ----
(***************************************************************************)
(* A model of the Gibbs-function engine of python-seawater                 *)
(* (src/seawater/gibbs.py): the argument-matching decorator, strip_mask,   *)
(* _gibbs, the helper polynomials and the temperature solvers built on     *)
(* them.                                                                   *)
(*                                                                         *)
(* Arrays are sequences of elements [v |-> data, m |-> mask bit].  The     *)
(* literal double-precision polynomials are kept as uninterpreted terms    *)
(* <<tag, arguments>> over the values that reach them, so that two results *)
(* are equal exactly when the code computes them from the same polynomial  *)
(* at the same arguments with the same scale factor.                       *)
(***************************************************************************)
EXTENDS Integers, Sequences, FiniteSets, TLC

VARIABLES
    SA, t, p,       \* the batch handed to the routine under study
    call,           \* the routine applied to the batch and its parameters
    out,            \* what the routine returned (or that it raised)
    twin, out2,     \* a second batch and the routine's result on it
    held,           \* the caller's arrays SA, t, p as they are after the call
    array, masked,  \* match_args_return: self.array, self.masked
    pc, args, ret, result  \* per caller: position in __call__, its data

vars == <<SA, t, p, call, out, twin, out2, held, array, masked, pc, args, ret, result>>

(***************************************************************************)
(* Bounds of the model.                                                    *)
(***************************************************************************)
MaxPoints == 3      \* points in an argument of distance
BatchLen == 2       \* elements per batch
MaxOrder == 3       \* derivative orders 0..MaxOrder are requested

(***************************************************************************)
(* Terms.                                                                  *)
(***************************************************************************)
Num(n) == <<"num", <<n>>>>
\* a salinity that reaches a polynomial
Sal(n) == <<"sal", <<n>>>>
Const(s) == <<"const", <<s>>>>
Fn(f, a) == <<f, a>>
NaN == <<"nan", <<>>>>
Zero == Num(0)
Flag(b) == <<"flag", <<b>>>>

Idx(A) == 1..Len(A)
Elem(v, m) == [v |-> v, m |-> m]
\* an array held by value: its entries are computed once, when it is built
Arr(f) == SubSeq(f, 1, Len(f))

(***************************************************************************)
(* numpy.ma primitives used by the code.                                   *)
(***************************************************************************)
\* np.ma.filled(a, fill): masked entries are replaced by fill
filled(A, fill) == Arr([i \in Idx(A) |-> IF A[i].m THEN fill ELSE A[i].v])

\* np.ma.getmaskarray(a)
getmaskarray(A) == Arr([i \in Idx(A) |-> A[i].m])

\* np.ma.mask_or(m1, m2)
mask_or(m1, m2) == Arr([i \in Idx(m1) |-> m1[i] \/ m2[i]])

\* np.ma.masked_less_equal(a, 0): entries <= 0 become masked
masked_less_equal0(A) == Arr([i \in Idx(A) |-> Elem(A[i].v, A[i].m \/ A[i].v <= 0)])

\* np.ma.all(a <= 0): taken over the unmasked entries; masked (falsy in
\* a condition) when every entry is masked
ma_all_le0(A) ==
    /\ \E i \in Idx(A) : ~A[i].m
    /\ \A i \in Idx(A) : ~A[i].m => A[i].v <= 0

(***************************************************************************)
(* _gibbs, lines 179-217: masks, placeholders and reduced variables.       *)
(***************************************************************************)
FillSA == 0
FillT == 20
FillP == 10

\* lines 184-188
nonzero_SA(A) ==
    ~( (Len(A) = 1 /\ ~A[1].m /\ A[1].v <= 0) \/ ma_all_le0(A) )

\* line 188: SA as it is after the test of line 184
SA_masked(A) == IF nonzero_SA(A) THEN masked_less_equal0(A) ELSE A

\* lines 193-195
SA_filled(A) == filled(SA_masked(A), FillSA)
t_filled(A) == filled(A, Num(FillT))
p_filled(A) == filled(A, Num(FillP))

\* lines 203-205 without the mask of p (line 204)
gibbs_mask_without_p(A, T, P) ==
    LET m1 == mask_or(getmaskarray(SA_masked(A)), getmaskarray(T))
        neg == Arr([i \in Idx(A) |-> SA_filled(A)[i] < 0])
    IN  mask_or(m1, neg)

\* lines 203-205
gibbs_mask(A, T, P) ==
    LET m1 == mask_or(getmaskarray(SA_masked(A)), getmaskarray(T))
        m2 == mask_or(m1, getmaskarray(P))
        neg == Arr([i \in Idx(A) |-> SA_filled(A)[i] < 0])
    IN  mask_or(m2, neg)

\* line 207: the positions at which the logarithm is taken
ipos(A) == Arr([i \in Idx(A) |-> SA_filled(A)[i] > 0])

\* line 209: a full selection when every entry is positive
ipos_index(A) ==
    IF \A i \in Idx(A) : ipos(A)[i] THEN Idx(A) ELSE {i \in Idx(A) : ipos(A)[i]}

(***************************************************************************)
(* _gibbs, lines 219-638: the branches.                                    *)
(***************************************************************************)
\* the chain without its last elif, (0, 0, 2)
branch_without_g002(ns, nt, npr) ==
    IF ns = 0 /\ nt = 0 /\ npr = 0 THEN "g000"
    ELSE IF ns = 1 /\ nt = 0 /\ npr = 0 THEN "g100"
    ELSE IF ns = 0 /\ nt = 1 /\ npr = 0 THEN "g010"
    ELSE IF ns = 0 /\ nt = 0 /\ npr = 1 THEN "g001"
    ELSE IF ns = 1 /\ nt = 1 /\ npr = 0 THEN "g110"
    ELSE IF ns = 1 /\ nt = 0 /\ npr = 1 THEN "g101"
    ELSE IF ns = 0 /\ nt = 1 /\ npr = 1 THEN "g011"
    ELSE IF ns = 2 /\ nt = 0 /\ npr = 0 THEN "g200"
    ELSE IF ns = 0 /\ nt = 2 /\ npr = 0 THEN "g020"
    ELSE "raise"

\* the if/elif chain on (ns, nt, npr); "raise" is the final else
branch(ns, nt, npr) ==
    IF ns = 0 /\ nt = 0 /\ npr = 0 THEN "g000"
    ELSE IF ns = 1 /\ nt = 0 /\ npr = 0 THEN "g100"
    ELSE IF ns = 0 /\ nt = 1 /\ npr = 0 THEN "g010"
    ELSE IF ns = 0 /\ nt = 0 /\ npr = 1 THEN "g001"
    ELSE IF ns = 1 /\ nt = 1 /\ npr = 0 THEN "g110"
    ELSE IF ns = 1 /\ nt = 0 /\ npr = 1 THEN "g101"
    ELSE IF ns = 0 /\ nt = 1 /\ npr = 1 THEN "g011"
    ELSE IF ns = 2 /\ nt = 0 /\ npr = 0 THEN "g200"
    ELSE IF ns = 0 /\ nt = 2 /\ npr = 0 THEN "g020"
    ELSE IF ns = 0 /\ nt = 0 /\ npr = 2 THEN "g002"
    ELSE "raise"

\* the salinity-independent polynomial of branch b at (y, z)
G03(b, T, P) == Fn("g03", <<Const(b), T, P>>)

\* branches whose salinity polynomial is x2 * ( ... ): it is 0 at SA = 0
x2_factor(b) == b \notin {"g100", "g110", "g101", "g200"}

\* branches that add a term in np.log(x[ipos])
log_branch(b) == b \in {"g000", "g100", "g010", "g110"}

\* the salinity polynomial of branch b at (x, y, z); lg: the term taken
\* at the positive entries only (the logarithm, or tmp / x2 of g200) is added
G08(b, sa, T, P, lg) ==
    IF x2_factor(b) /\ sa = 0 THEN Zero
    ELSE Fn("g08", <<Const(b), Sal(sa), T, P, Flag(lg)>>)

\* does branch b evaluate its salinity polynomial?  (the tests on
\* nonzero_SA of lines 244, 287, 350, 402, 433, 513, 580, 617; none in
\* the branches g101 and g200)
evaluates_g08(b, nz) == IF b \in {"g101", "g200"} THEN TRUE ELSE nz

\* lines 327 and 463
all_masked(b, nz) == b \in {"g100", "g110"} /\ ~nz

\* the factor applied to g03 + g08
scale(b, nz) ==
    CASE b = "g000" -> Const("1")
      [] b = "g100" -> Const("0.5*sfac")
      [] b = "g010" -> IF nz THEN Const("0.025") ELSE Const("1")
      [] b = "g001" -> Const("1e-8")
      [] b = "g110" -> Const("0.5*sfac*0.025")
      [] b = "g101" -> Const("sfac*0.5e-8")
      [] b = "g011" -> Const("2.5e-10")
      [] b = "g200" -> Const("0.25*sfac**2")
      [] b = "g020" -> Const("0.000625")
      [] b = "g002" -> Const("1e-16")

\* the value of one entry of gibbs before the mask is applied
gibbs_value(b, nz, sa, T, P, pos) ==
    IF all_masked(b, nz) THEN Zero               \* np.zeros, line 199
    ELSE Fn("gibbs",
            << scale(b, nz),
               IF b \in {"g100", "g110", "g101", "g200"} THEN Zero
               ELSE G03(b, T, P),
               IF ~evaluates_g08(b, nz) THEN Zero
               ELSE G08(b, sa, T, P,
                        IF b = "g200" THEN nz /\ pos
                        ELSE log_branch(b) /\ pos) >>)

\* what a call gives back: the entries e, the positions logAt at which the
\* logarithm was taken, the number of Newton updates x = x_old - f / df
\* the call performed (two to a corrector pass), and the number of times
\* pt_from_CT called CT_from_pt
Raised == [raised |-> TRUE, e |-> <<>>, logAt |-> {}, halves |-> 0, evals |-> 0]
Returned(e, l) == [raised |-> FALSE, e |-> e, logAt |-> l, halves |-> 0, evals |-> 0]
\* the result of a solver that ended in the state st
Solved(st) ==
    [raised |-> FALSE, e |-> st.pt, logAt |-> {}, halves |-> st.halves, evals |-> 0]

\* lines 640-643: the values of the branch under the mask
gibbs_entries(b, nz, sa, tf, pf, mask, pos) ==
    Arr([i \in Idx(sa) |->
           Elem(gibbs_value(b, nz, sa[i], tf[i], pf[i], pos[i]),
                mask[i] \/ all_masked(b, nz))])

\* the branch b on the batch, nz being nonzero_SA
gibbs_branch(b, nz, A, T, P) ==
    IF b = "raise" THEN Raised
    ELSE Returned(gibbs_entries(b, nz, SA_filled(A), t_filled(T), p_filled(P),
                                gibbs_mask(A, T, P), ipos(A)),
                  IF log_branch(b) /\ nz THEN ipos_index(A) ELSE {})

\* _gibbs(ns, nt, npr, SA, t, p)
gibbs(ns, nt, npr, A, T, P) ==
    gibbs_branch(branch(ns, nt, npr), nonzero_SA(A), A, T, P)

(***************************************************************************)
(* Arithmetic on terms and on masked arrays.  The constructors apply the   *)
(* identities that hold exactly in floating point (a - a = 0, 0 / d = 0,   *)
(* a - 0 = a, a + 0 = a, 0 * a = 0, 0.5 * (a + a) = a) and nothing else.   *)
(***************************************************************************)
Add(a, b) == IF b = Zero THEN a ELSE IF a = Zero THEN b ELSE Fn("add", <<a, b>>)
Sub(a, b) == IF a = b THEN Zero ELSE IF b = Zero THEN a ELSE Fn("sub", <<a, b>>)
Mul(a, b) == IF a = Zero \/ b = Zero THEN Zero ELSE Fn("mul", <<a, b>>)
Div(a, b) == IF a = Zero THEN Zero ELSE Fn("div", <<a, b>>)
Neg(a) == IF a = Zero THEN Zero ELSE Fn("neg", <<a>>)
Mid(a, b) == IF a = b THEN a ELSE Fn("mid", <<a, b>>)
Recip(a) == Fn("recip", <<a>>)

\* elementwise operations of numpy.ma: the result is masked where an
\* operand is
Map1(Op(_), A) == Arr([i \in Idx(A) |-> Elem(Op(A[i].v), A[i].m)])
Map2(Op(_, _), A, B) ==
    Arr([i \in Idx(A) |-> Elem(Op(A[i].v, B[i].v), A[i].m \/ B[i].m)])
Map3(Op(_, _, _), A, B, C) ==
    Arr([i \in Idx(A) |-> Elem(Op(A[i].v, B[i].v, C[i].v), A[i].m \/ B[i].m \/ C[i].m)])
Map4(Op(_, _, _, _), A, B, C, D) ==
    Arr([i \in Idx(A) |-> Elem(Op(A[i].v, B[i].v, C[i].v, D[i].v),
                               A[i].m \/ B[i].m \/ C[i].m \/ D[i].m)])

\* a plain array of the given values
Plain(V) == Arr([i \in Idx(V) |-> Elem(V[i], FALSE)])
\* a scalar broadcast against a batch of n entries
Broadcast(v, n) == Arr([i \in 1..n |-> Elem(v, FALSE)])
\* np.ma.array(V, mask=M)
ma_array(V, M) == Arr([i \in Idx(V) |-> Elem(V[i], M[i])])
\* the salinities as terms
NumArr(A) == Map1(Sal, A)

(***************************************************************************)
(* strip_mask, lines 38-65.  kind is what args[0] is: "ma" a MaskedArray   *)
(* with a shape, "nd" a plain ndarray with a shape, "0d" a value without   *)
(* shape.  rest is args[1:].                                               *)
(***************************************************************************)
\* strip_mask without lines 53-54
mask_negative_off(A) == A

\* lines 53-54: the negative entries become masked
mask_negative(A) == Arr([i \in Idx(A) |-> Elem(A[i].v, A[i].m \/ A[i].v < 0)])

\* the masks of a sequence of arrays, or-ed into m
RECURSIVE mask_or_all(_, _)
mask_or_all(m, As) ==
    IF As = <<>> THEN m
    ELSE mask_or_all(mask_or(m, getmaskarray(Head(As))), Tail(As))

\* SAm: SA after line 54; filledrest: line 63; mask0: line 50
strip_mask_result(kind, A, rest, SAm, filledrest, mask0) ==
    CASE kind = "ma" ->
               \* line 56: args[0] is the MaskedArray masked at line 54
               \* (np.ma.asarray returns it)
               [raised |-> FALSE,
                SA |-> filled(SAm, 0),                           \* line 57
                rest |-> filledrest,
                mask |-> mask_or_all(mask0, <<SAm>> \o SubSeq(rest, 1, Len(rest) - 1)),
                after |-> SAm]
          [] kind = "nd" ->
               \* line 56: args[0] is the caller's plain array, without mask
               [raised |-> FALSE,
                SA |-> filled(SAm, 0),                           \* line 57
                rest |-> filledrest,
                mask |-> mask_or_all(mask0, <<A>> \o SubSeq(rest, 1, Len(rest) - 1)),
                after |-> A]
          [] kind = "0d" /\ A[1].v < 0 ->                        \* line 58
               [raised |-> FALSE,
                SA |-> <<0>>,                                    \* line 59
                rest |-> filledrest,
                mask |-> mask_or_all(mask0, SubSeq(rest, 1, Len(rest) - 1)), \* line 61
                after |-> A]
          [] OTHER ->                             \* newargs is not bound
               [raised |-> TRUE, SA |-> <<>>, rest |-> <<>>, mask |-> <<>>,
                after |-> A]

strip_mask(kind, A, rest) ==
    strip_mask_result(kind, A, rest, mask_negative(A),
                      Arr([k \in Idx(rest) |-> filled(rest[k], Zero)]),
                      getmaskarray(rest[Len(rest)]))

(***************************************************************************)
(* The helper polynomials, lines 645-831.  The zero-pressure polynomials   *)
(* are, coefficient for coefficient, those of _entropy_part and of the     *)
(* (0,2,0) branch of _gibbs at z = 0.                                      *)
(***************************************************************************)
entropy_part_value(sa, T, P) ==
    Fn("entropy_part", <<G03("ep", T, P), G08("ep", sa, T, P, FALSE)>>)

\* the polynomial on the stripped arguments s, at pressure s.rest[2] when
\* atp, at pressure zero otherwise
entropy_part_of(s, atp) ==
    IF s.raised THEN Raised
    ELSE Returned(
           Arr([i \in Idx(s.SA) |->
              Elem(entropy_part_value(s.SA[i], s.rest[1][i],
                                      IF atp THEN s.rest[2][i] ELSE Zero),
                   s.mask[i])]), {})

\* _entropy_part(SA, t, p)
entropy_part(kind, A, T, P) == entropy_part_of(strip_mask(kind, A, <<T, P>>), TRUE)

\* _entropy_part_zerop(SA, pt0)
entropy_part_zerop(kind, A, T) == entropy_part_of(strip_mask(kind, A, <<T>>), FALSE)

gibbs_pt0_pt0_of(s) ==
    IF s.raised THEN Raised
    ELSE Returned(
           Arr([i \in Idx(s.SA) |->
              Elem(Fn("gibbs", << Const("0.000625"),
                                  G03("g020", s.rest[1][i], Zero),
                                  G08("g020", s.SA[i], s.rest[1][i], Zero, FALSE) >>),
                   s.mask[i])]), {})

\* _gibbs_pt0_pt0(SA, pt0)
gibbs_pt0_pt0(kind, A, T) == gibbs_pt0_pt0_of(strip_mask(kind, A, <<T>>))

(***************************************************************************)
(* The bodies of the public routines, as they run on the one-dimensional   *)
(* masked arrays that match_args_return hands them.                        *)
(***************************************************************************)
\* SA[SA < 0] = 0
clamp(A) == Arr([i \in Idx(A) |-> IF ~A[i].m /\ A[i].v < 0 THEN Elem(0, FALSE) ELSE A[i]])

\* entropy, lines 1523-1526
entropy(A, T, P) == Map1(Neg, gibbs(0, 1, 0, A, T, P).e)

\* rho, lines 1579-1582
rho(A, T, P) == Map1(Recip, gibbs(0, 0, 1, A, T, P).e)

\* a first estimate whose polynomial is not multiplied by p - pr
pt_estimate_unscaled(sa, T, P, PR) == Add(T, Fn("pt_poly", <<sa, T, P, PR>>))

\* the rational first estimate of lines 2125-2131 and 3630-3638
pt_estimate(sa, T, P, PR) ==
    Add(T, Mul(Sub(P, PR), Fn("pt_poly", <<sa, T, P, PR>>)))

\* lines 2133-2134 and 3640-3641
dentropy_dt_ideal(sa, pt) == Fn("dentropy_dt", <<sa, pt>>)

\* a pass whose last step is applied from the midpoint ptm, not from pt_old
potential_t_pass_from_mid(A, true_entropy_part, PR, pt_old, dentropy_dt) ==
    LET full(dentropy, ptm, dentropy_dt2) ==
            [pt |-> Map2(Sub, ptm, Map2(Div, dentropy, dentropy_dt2)),
             dentropy_dt |-> dentropy_dt2,
             halves |-> 2]
        mid(dentropy, ptm) ==
            full(dentropy, ptm, Map1(Neg, gibbs(0, 2, 0, A, ptm, PR).e))
        half(dentropy) ==
            mid(dentropy,
                Map2(Mid, Map2(Sub, pt_old, Map2(Div, dentropy, dentropy_dt)), pt_old))
    IN  half(Map2(Sub, entropy_part("ma", A, pt_old, PR).e, true_entropy_part))

\* one pass of the loop of potential_t, lines 2139-2144
potential_t_pass(A, true_entropy_part, PR, pt_old, dentropy_dt) ==
    LET full(dentropy, dentropy_dt2) ==                          \* line 2144
            [pt |-> Map2(Sub, pt_old, Map2(Div, dentropy, dentropy_dt2)),
             dentropy_dt |-> dentropy_dt2,
             halves |-> 2]                           \* lines 2141 and 2144
        mid(dentropy, ptm) ==                                    \* line 2143
            full(dentropy, Map1(Neg, gibbs(0, 2, 0, A, ptm, PR).e))
        half(dentropy) ==                                        \* lines 2141-2142
            mid(dentropy,
                Map2(Mid, Map2(Sub, pt_old, Map2(Div, dentropy, dentropy_dt)), pt_old))
    IN  half(Map2(Sub, entropy_part("ma", A, pt_old, PR).e, true_entropy_part))

\* the state of a solver after a pass that gave r, st being the state before
After(st, r) == [r EXCEPT !.halves = st.halves + r.halves]

\* a loop that leaves as soon as the discrepancy of the entropy vanishes at
\* every entry: what the loop of line 2138 does not do
RECURSIVE potential_t_loop_tol(_, _, _, _, _)
potential_t_loop_tol(n, A, true_entropy_part, PR, st) ==
    IF \/ n = 0
       \/ \A i \in Idx(A) :
             Sub(entropy_part("ma", A, st.pt, PR).e[i].v, true_entropy_part[i].v) = Zero
    THEN st
    ELSE potential_t_loop_tol(n - 1, A, true_entropy_part, PR,
             After(st, potential_t_pass(A, true_entropy_part, PR, st.pt, st.dentropy_dt)))

\* the loop of line 2138, n passes from the state st
RECURSIVE potential_t_loop(_, _, _, _, _)
potential_t_loop(n, A, true_entropy_part, PR, st) ==
    IF n = 0 THEN st
    ELSE potential_t_loop(n - 1, A, true_entropy_part, PR,
             After(st, potential_t_pass(A, true_entropy_part, PR, st.pt, st.dentropy_dt)))

\* lines 2123-2152, SA being clamped
potential_t_solve(A, T, P, PR, pt) ==
    potential_t_loop(2, A, entropy_part("ma", A, T, P).e, PR,
                     [pt |-> pt, dentropy_dt |-> Map2(dentropy_dt_ideal, NumArr(A), pt),
                      halves |-> 0])

potential_t_clamped(A, T, P, PR) ==
    potential_t_solve(A, T, P, PR, Map4(pt_estimate, NumArr(A), T, P, PR))

\* the state in which potential_t ends
potential_t_run(A0, T, P, PR) == potential_t_clamped(clamp(A0), T, P, PR)   \* line 2121

\* potential_t(SA, t, p, pr), lines 2117-2152
potential_t(A0, T, P, PR) == potential_t_run(A0, T, P, PR).pt

\* one pass of the loop of pt0_from_t, lines 3645-3650
pt0_from_t_pass(A, true_entropy_part, pt0_old, dentropy_dt) ==
    LET full(dentropy, dentropy_dt2) ==                          \* line 3650
            [pt |-> Map2(Sub, pt0_old, Map2(Div, dentropy, dentropy_dt2)),
             dentropy_dt |-> dentropy_dt2,
             halves |-> 2]                           \* lines 3647 and 3650
        mid(dentropy, pt0m) ==                                   \* line 3649
            full(dentropy, Map1(Neg, gibbs_pt0_pt0("ma", A, pt0m).e))
        half(dentropy) ==                                        \* lines 3647-3648
            mid(dentropy,
                Map2(Mid, Map2(Sub, pt0_old, Map2(Div, dentropy, dentropy_dt)), pt0_old))
    IN  half(Map2(Sub, entropy_part_zerop("ma", A, pt0_old).e, true_entropy_part))

\* the loop of line 3644, n passes from the state st
RECURSIVE pt0_from_t_loop(_, _, _, _)
pt0_from_t_loop(n, A, true_entropy_part, st) ==
    IF n = 0 THEN st
    ELSE pt0_from_t_loop(n - 1, A, true_entropy_part,
             After(st, pt0_from_t_pass(A, true_entropy_part, st.pt, st.dentropy_dt)))

\* lines 3640-3661.  s is what the strip_mask of _entropy_part (line 3643)
\* makes of SA, t, p: from then on SA is the caller's array with its
\* negative entries masked (s.after)
pt0_from_t_solve(A, s, pt0) ==
    pt0_from_t_loop(2, s.after, entropy_part_of(s, TRUE).e,
                    [pt |-> pt0, dentropy_dt |-> Map2(dentropy_dt_ideal, NumArr(A), pt0),
                     halves |-> 0])

\* the state in which pt0_from_t ends
pt0_from_t_run(A, T, P) ==
    pt0_from_t_solve(A, strip_mask("ma", A, <<T, P>>),
                     Map4(pt_estimate, NumArr(A), T, P, Broadcast(Zero, Len(A))))

\* pt0_from_t(SA, t, p), lines 3630-3662
pt0_from_t(A, T, P) == pt0_from_t_run(A, T, P).pt

\* the polynomial of pot_enthalpy_from_pt on the stripped arguments
pot_enthalpy_of(s) ==
    Arr([i \in Idx(s.SA) |->
           Elem(Fn("pot_enthalpy", <<Sal(s.SA[i]), s.rest[1][i]>>), s.mask[i])])

\* pot_enthalpy_from_pt(SA, pt), lines 3376-3419
pot_enthalpy_from_pt(A, PT) == pot_enthalpy_of(strip_mask("ma", A, <<PT>>))

\* lines 3322-3326
CT_of(s, pot_enthalpy) ==
    Arr([i \in Idx(s.SA) |->
           Elem(Fn("div", <<pot_enthalpy[i].v, Const("cp0")>>), s.mask[i])])

CT_from_pt_of(s) == CT_of(s, pot_enthalpy_from_pt(Plain(s.SA), Plain(s.rest[1])))

\* CT_from_pt(SA, pt), lines 3320-3326
CT_from_pt(A, PT) == CT_from_pt_of(strip_mask("ma", A, <<PT>>))

\* pt_from_CT without the half pass of lines 3512-3514
pt_from_CT_solve_one_pass(A, CT) ==
    LET full(pt0, CT_diff, dCT_dpt) ==
            [pt |-> Map2(Sub, pt0, Map2(Div, CT_diff, dCT_dpt)), halves |-> 2, evals |-> 1]
        mid(pt0, CT_diff, ptm) ==
            full(pt0, CT_diff,
                 Map2(LAMBDA m, g : Fn("dCT_dpt", <<m, g>>),
                      ptm, gibbs_pt0_pt0("nd", A, ptm).e))
        half(pt0, dCT_dpt0, CT_diff) ==
            mid(pt0, CT_diff,
                Map2(Mid, Map2(Sub, pt0, Map2(Div, CT_diff, dCT_dpt0)), pt0))
        first(pt0) ==
            half(pt0,
                 Map3(LAMBDA sa, ct, pt : Fn("dCT_dpt_estimate", <<sa, ct, pt>>),
                      NumArr(A), CT, pt0),
                 Map2(Sub, CT_from_pt(A, pt0), CT))
    IN  first(Map2(LAMBDA sa, ct : Fn("pt_from_CT_estimate", <<sa, ct>>),
                   NumArr(A), CT))

\* lines 3478-3514 on the stripped arguments; h counts the Newton updates and
\* n the calls of CT_from_pt
pt_from_CT_solve(A, CT) ==
    LET last(pt1, dCT_dpt, h, n) ==                              \* lines 3512-3514
            [pt |-> Map2(Sub, pt1, Map2(Div, Map2(Sub, CT_from_pt(A, pt1), CT), dCT_dpt)),
             halves |-> h + 1, evals |-> n + 1]
        full(pt0, CT_diff, dCT_dpt, h, n) ==                     \* line 3511
            last(Map2(Sub, pt0, Map2(Div, CT_diff, dCT_dpt)), dCT_dpt, h + 1, n)
        mid(pt0, CT_diff, ptm, h, n) ==                          \* line 3510
            full(pt0, CT_diff,
                 Map2(LAMBDA m, g : Fn("dCT_dpt", <<m, g>>),
                      ptm, gibbs_pt0_pt0("nd", A, ptm).e), h, n)
        half(pt0, dCT_dpt0, CT_diff) ==                          \* lines 3504-3505
            mid(pt0, CT_diff,
                Map2(Mid, Map2(Sub, pt0, Map2(Div, CT_diff, dCT_dpt0)), pt0), 1, 1)
        first(pt0) ==                                            \* lines 3499-3502
            half(pt0,
                 Map3(LAMBDA sa, ct, pt : Fn("dCT_dpt_estimate", <<sa, ct, pt>>),
                      NumArr(A), CT, pt0),
                 Map2(Sub, CT_from_pt(A, pt0), CT))
    IN  first(Map2(LAMBDA sa, ct : Fn("pt_from_CT_estimate", <<sa, ct>>),
                   NumArr(A), CT))                               \* line 3497

\* line 3516
pt_from_CT_of(s, st) ==
    [pt |-> ma_array(Arr([i \in Idx(st.pt) |-> st.pt[i].v]), s.mask), halves |-> st.halves,
     evals |-> st.evals]

pt_from_CT_stripped(s) == pt_from_CT_of(s, pt_from_CT_solve(Plain(s.SA), Plain(s.rest[1])))

\* the state in which pt_from_CT ends
pt_from_CT_run(A0, CT0) == pt_from_CT_stripped(strip_mask("ma", A0, <<CT0>>))

\* pt_from_CT(SA, CT), lines 3476-3516
pt_from_CT(A0, CT0) == pt_from_CT_run(A0, CT0).pt

\* lines 3800-3804, SA being clamped and t_type being 'pt' or 'CT'
entropy_from_t_clamped(A, T, t_type) ==
    CASE t_type = "pt" -> Map1(Neg, gibbs(0, 1, 0, A, T, Broadcast(Zero, Len(A))).e)
      [] t_type = "CT" ->
           Map1(Neg, gibbs(0, 1, 0, A, pt_from_CT(A, T), Broadcast(Zero, Len(A))).e)

\* entropy_from_t(SA, t, t_type), lines 3796-3806, t_type being 'pt' or 'CT'
entropy_from_t(A0, T, t_type) == entropy_from_t_clamped(clamp(A0), T, t_type)

\* the call of entropy_from_t: with another t_type neither line 3801 nor
\* line 3804 binds the local name entropy, and line 3806 ends in an
\* UnboundLocalError
entropy_from_t_call(A0, T, t_type) ==
    IF t_type \in {"pt", "CT"} THEN Returned(entropy_from_t(A0, T, t_type), {})
    ELSE Raised

\* one pass of the loop of t_from_entropy, lines 3731-3736: pt is left at
\* the half-way estimate, t receives the full step
t_from_entropy_pass(A, entropy_, pt_old, dentropy_dt) ==
    LET full(dentropy, pt_half, dentropy_dt2) ==                 \* line 3736
            [pt |-> pt_half,
             dentropy_dt |-> dentropy_dt2,
             t |-> Map2(Sub, pt_old, Map2(Div, dentropy, dentropy_dt2)),
             halves |-> 2]                           \* lines 3733 and 3736
        mid(dentropy, pt_half) ==                                \* lines 3734-3735
            full(dentropy, pt_half,
                 Map1(Neg, gibbs_pt0_pt0("ma", A, Map2(Mid, pt_half, pt_old)).e))
        half(dentropy) ==                                        \* line 3733
            mid(dentropy, Map2(Sub, pt_old, Map2(Div, dentropy, dentropy_dt)))
    IN  half(Map2(Sub, entropy_from_t(A, pt_old, "pt"), entropy_))

\* the loop of line 3730, n passes from the state st
RECURSIVE t_from_entropy_loop(_, _, _, _)
t_from_entropy_loop(n, A, entropy_, st) ==
    IF n = 0 THEN st
    ELSE t_from_entropy_loop(n - 1, A, entropy_,
             After(st, t_from_entropy_pass(A, entropy_, st.pt, st.dentropy_dt)))

\* lines 3723-3728: the state before the first pass, pt being the first
\* estimate of line 3727
t_from_entropy_start(A, pt) ==
    [pt |-> pt, dentropy_dt |-> Map2(dentropy_dt_ideal, NumArr(A), pt),
     t |-> pt, halves |-> 0]

\* lines 3723-3727
pt_from_entropy_estimate(A, entropy_) ==
    Map2(LAMBDA sa, e : Fn("pt_from_entropy_estimate", <<sa, e>>), NumArr(A), entropy_)

\* lines 3728-3741, SA being clamped
t_from_entropy_solve(A, entropy_, t_type, pt) ==
    LET done(st) == [pt |-> IF t_type = "CT" THEN CT_from_pt(A, st.t) ELSE st.t,
                     halves |-> st.halves]
    IN  done(t_from_entropy_loop(3, A, entropy_, t_from_entropy_start(A, pt)))

t_from_entropy_clamped(A, entropy_, t_type) ==
    t_from_entropy_solve(A, entropy_, t_type, pt_from_entropy_estimate(A, entropy_))

\* the state of t_from_entropy after n passes of its loop
t_from_entropy_after(n, A, entropy_) ==
    t_from_entropy_loop(n, A, entropy_,
                        t_from_entropy_start(A, pt_from_entropy_estimate(A, entropy_)))

\* the state in which t_from_entropy ends
t_from_entropy_run(A0, entropy_, t_type) ==
    t_from_entropy_clamped(clamp(A0), entropy_, t_type)          \* line 3719

\* t_from_entropy(SA, entropy, t_type), lines 3719-3741
t_from_entropy(A0, entropy_, t_type) == t_from_entropy_run(A0, entropy_, t_type).pt

\* a statement after an assignment, x = e; F(x): e is evaluated, then F on
\* its value
Then(e, F(_)) == CHOOSE y \in {F(x) : x \in {e}} : TRUE

\* CT_from_t(SA, t, p), gibbs3/absolute_salinity.py lines 84-88
CT_from_t(A, T, P) ==
    Then(pt0_from_t(A, T, P), LAMBDA pt0 : CT_from_pt(A, pt0))

\* t_from_CT with the pressure and the reference pressure of line 3569
\* exchanged
t_from_CT_exchanged(A, CT, P) ==
    Then(pt_from_CT(A, CT), LAMBDA pt0 : potential_t(A, pt0, P, Broadcast(Zero, Len(A))))

\* t_from_CT(SA, CT, p), lines 3567-3571: potential_t from p = 0 to pr = p
t_from_CT(A, CT, P) ==
    Then(pt_from_CT(A, CT), LAMBDA pt0 : potential_t(A, pt0, Broadcast(Zero, Len(A)), P))

(***************************************************************************)
(* SA_from_rho, lines 4694-4713, and p_from_z, lines 3943-3955.  The        *)
(* salinities SA_from_rho hands to _gibbs are its own estimates: their      *)
(* values are terms, and _gibbs masks them (lines 184-205) by their sign,   *)
(* which is that of the first estimate: 120 * (v_lab - v_0) / (v_120 - v_0) *)
(* is negative for the density 0 (v_lab is infinite and v_120 < v_0), is 0  *)
(* for the density 1 / v_0 of pure water, for which delta_v is 0 in every   *)
(* pass, lies between 0 and 120 for sea water, whose passes converge to its *)
(* salinity, and lies above 120 for a denser fluid.                         *)
(***************************************************************************)
\* a salinity with the sign of the first estimate for the density rho_v:
\* 1000 stands for the density of pure water at (t, p), 1025 for a density
\* of sea water, 1200 for a density no sea water has
estimate_of(rho_v) ==
    CASE rho_v = Num(0) -> -1
      [] rho_v = Num(1000) -> 0
      [] rho_v = Num(1025) -> 35
      [] rho_v = Num(1200) -> 130

\* the estimates S as _gibbs tests them, lines 184-207
estimates(S, rho_) == Arr([i \in Idx(S) |-> Elem(estimate_of(rho_[i].v), S[i].m)])

\* _gibbs at the estimates S: a term, under the mask of lines 203-205
gibbs_at(b, S, rho_, T, P) ==
    Arr([i \in Idx(S) |->
           Elem(Fn("gibbs_at", <<Const(b), S[i].v, T[i].v, P[i].v>>),
                gibbs_mask(estimates(S, rho_), T, P)[i])])

\* a batch of n entries of the salinity v
Salinity(v, n) == Arr([i \in 1..n |-> Elem(v, FALSE)])

\* line 4699: (SA < 0) | (SA > 120) on the first estimate
Ior(rho_) ==
    Arr([i \in Idx(rho_) |-> estimate_of(rho_[i].v) < 0 \/ estimate_of(rho_[i].v) > 120])

\* one pass of the loop of SA_from_rho, lines 4703-4708
SA_from_rho_pass(rho_, T, P, SA_old, v_SA) ==
    LET full(delta_v, v_SA2) ==                                  \* line 4708
            [SA |-> Map2(Sub, SA_old, Map2(Div, delta_v, v_SA2)),
             v_SA |-> v_SA2,
             halves |-> 2]                           \* lines 4705 and 4708
        mid(delta_v, SA_half) ==                                 \* lines 4706-4707
            full(delta_v, gibbs_at("g101", Map2(Mid, SA_half, SA_old), rho_, T, P))
        half(delta_v) ==                                         \* line 4705
            mid(delta_v, Map2(Sub, SA_old, Map2(Div, delta_v, v_SA)))
    IN  half(Map2(Sub, gibbs_at("g001", SA_old, rho_, T, P),
                       Map1(Recip, rho_)))                       \* line 4704

\* the loop of line 4702, n passes from the state st
RECURSIVE SA_from_rho_loop(_, _, _, _, _)
SA_from_rho_loop(n, rho_, T, P, st) ==
    IF n = 0 THEN st
    ELSE SA_from_rho_loop(n - 1, rho_, T, P,
             After(st, SA_from_rho_pass(rho_, T, P, st.SA, st.v_SA)))

\* lines 4696-4713, v_0 and v_120 being the values of lines 4696-4697
SA_from_rho_solve(rho_, T, P, v_0, v_120) ==
    LET done(st) ==                                              \* lines 4710-4712
            [pt |-> Arr([i \in Idx(rho_) |-> Elem(st.SA[i].v, st.SA[i].m \/ Ior(rho_)[i])]),
             halves |-> st.halves]
    IN  done(SA_from_rho_loop(2, rho_, T, P,
                 [SA |-> Map3(LAMBDA l, a, b : Fn("SA_estimate", <<l, a, b>>),
                              Map1(Recip, rho_), v_0, v_120),   \* line 4698
                  v_SA |-> Map2(LAMBDA a, b : Fn("v_SA_estimate", <<a, b>>),
                                v_0, v_120),                     \* line 4700
                  halves |-> 0]))

\* the state in which SA_from_rho(rho_, t, p) ends
SA_from_rho_run(rho_, T, P) ==
    SA_from_rho_solve(rho_, T, P,
                      gibbs(0, 0, 1, Salinity(0, Len(rho_)), T, P).e,
                      gibbs(0, 0, 1, Salinity(120, Len(rho_)), T, P).e)

\* lines 3950-3953 of p_from_z, from the first estimate p_old of Saunders
\* with the discrepancy f and its derivative df_dp
p_from_z_pass(p_old, f, df_dp) ==
    LET full(df_dp2) ==                                          \* line 3953
            [pt |-> Map2(Sub, p_old, Map2(Div, f, df_dp2)), halves |-> 2]
        mid(p_half) ==                                           \* lines 3951-3952
            full(Map1(LAMBDA pm : Fn("specvol_SSO_0_CT25", <<pm>>), Map2(Mid, p_half, p_old)))
    IN  mid(Map2(Sub, p_old, Map2(Div, f, df_dp)))               \* line 3950

\* lines 3947-3955, p being the first estimate of line 3945
p_from_z_solve(z, lat, p_) ==
    p_from_z_pass(p_,
                  Map3(LAMBDA e, z_, l : Fn("f", <<e, z_, l>>), p_, z, lat),
                  Map1(LAMBDA e : Fn("specvol_SSO_0_CT25", <<e>>), p_))

\* the state in which p_from_z(z, lat) ends
p_from_z_run(z, lat) ==
    p_from_z_solve(z, lat, Map2(LAMBDA z_, l : Fn("p_saunders", <<z_, l>>), z, lat))

(***************************************************************************)
(* SA_from_SP, Sstar_from_SP and SA_Sstar_from_SP, lines 4196-4629, with    *)
(* _SA_from_SP_Baltic, lines 1076-1100.  lon and lat are plain arrays of    *)
(* whole degrees; the anomaly of _delta_SA, read from the reference data    *)
(* set, is a term.                                                         *)
(***************************************************************************)
\* SP left as it is
SP_unchanged(SP) == SP

\* SP[SP < 0] = 0, lines 4196, 4532 and 4615
SP_nonnegative(SP) == clamp(SP)

\* np.broadcast_arrays, lines 4530 and 4613: plain arrays come back, the
\* masks are dropped
broadcast_arrays(A) == Arr([i \in Idx(A) |-> Elem(A[i].v, FALSE)])

\* _delta_SA(p, lon, lat)
delta_SA(P, lon, lat) ==
    Arr([i \in Idx(P) |->
           Elem(Fn("delta_SA", <<P[i].v, Num(lon[i]), Num(lat[i])>>), P[i].m)])

\* the positions at which the boolean array B is true, ascending
Where(B) == SelectSeq(Arr([i \in Idx(B) |-> i]), LAMBDA i : B[i])

\* X[M], M a boolean array no longer than X: the entries of X at the
\* positions at which M is true
Take(X, M) == Arr([j \in Idx(Where(M)) |-> X[Where(M)[j]]])

\* line 1083: the rectangle 7 < lon < 45, 50 < lat < 69
inds_baltic(lon, lat) ==
    Arr([i \in Idx(lon) |-> 7 < lon[i] /\ lon[i] < 45 /\ 50 < lat[i] /\ lat[i] < 69])

\* lines 1089-1093: xx_left <= lon <= xx_right, xx_left interpolated through
\* (50, 12.6), (59, 7), (69, 26) and xx_right through (50, 45), (69, 26)
in_polygon(lo, la) ==
    /\ IF la <= 59 THEN 90 * lo >= 1134 - 56 * (la - 50)
                   ELSE 10 * lo >= 70 + 19 * (la - 59)
    /\ lo <= 95 - la

inds_baltic1(lon_b, lat_b) ==
    Arr([j \in Idx(lon_b) |-> in_polygon(lon_b[j], lat_b[j])])

\* lines 1097-1098: SA_baltic[inds_baltic[inds_baltic1]] = ... SP[the same]
\* V is inds_baltic[inds_baltic1]; a build of numpy that refuses a boolean
\* index of the wrong length (strict) raises IndexError, another takes the
\* index as the positions at which it is true
SA_baltic_index(n, B1, V, strict) ==
    IF strict /\ (Len(B1) # n \/ Len(V) # n) THEN [kind |-> "raise", at |-> {}]
    ELSE [kind |-> "array", at |-> {j \in Idx(V) : V[j]}]

SA_baltic_inside(B, B1, strict) ==
    IF \A j \in Idx(B1) : ~B1[j] THEN [kind |-> "None", at |-> {}]   \* lines 1094-1095
    ELSE SA_baltic_index(Len(B), B1, Take(B, B1), strict)

SA_baltic_rectangle(lon, lat, B, strict) ==
    IF \A i \in Idx(B) : ~B[i] THEN [kind |-> "None", at |-> {}]     \* lines 1084-1085
    ELSE SA_baltic_inside(B, inds_baltic1(Take(lon, B), Take(lat, B)), strict)

\* _SA_from_SP_Baltic(SP, lon, lat): None, an exception, or the positions at
\* which SA_baltic holds ((SSO - 0.087) / 35) * SP + 0.087
SA_from_SP_Baltic(lon, lat, strict) ==
    SA_baltic_rectangle(lon, lat, inds_baltic(lon, lat), strict)

\* lines 4203-4204, 4540-4541 and 4623-4627: the Baltic values replace the
\* others where SA_baltic is not masked
baltic_replaces(S, SP, bal) ==
    Arr([i \in Idx(S) |->
           IF i \in bal.at THEN Elem(Fn("SA_baltic", <<Num(SP[i].v)>>), FALSE) ELSE S[i]])

\* (SSO / 35) * SP + dSA, lines 4200 and 4619
SA_open(SP, dSA) ==
    Map2(LAMBDA s_, d : Add(Mul(Const("SSO/35"), Num(s_)), d), SP, dSA)

\* (SSO / 35) * SP - r1 * dSA, lines 4535 and 4620
Sstar_open(SP, dSA) ==
    Map2(LAMBDA s_, d : Sub(Mul(Const("SSO/35"), Num(s_)), Mul(Const("r1"), d)), SP, dSA)

\* the result of a routine whose open-ocean values are S
SP_result(S, SP, bal) ==
    IF bal.kind = "raise" THEN Raised
    ELSE Returned(baltic_replaces(S, SP, bal), {})

\* lines 4198-4206, SP being what line 4196 leaves
SA_from_SP_of(SP, P, lon, lat, strict) ==
    SP_result(SA_open(SP, delta_SA(P, lon, lat)), SP, SA_from_SP_Baltic(lon, lat, strict))

\* SA_from_SP(SP, p, lon, lat), lines 4196-4206
SA_from_SP(SP, P, lon, lat, strict) ==
    SA_from_SP_of(SP_nonnegative(SP), P, lon, lat, strict)

\* lines 4534-4543, SP being what line 4532 leaves
Sstar_from_SP_of(SP, P, lon, lat, strict) ==
    SP_result(Sstar_open(SP, delta_SA(P, lon, lat)), SP, SA_from_SP_Baltic(lon, lat, strict))

\* Sstar_from_SP(SP, p, lon, lat), lines 4530-4543
Sstar_from_SP(SP, P, lon, lat, strict) ==
    Sstar_from_SP_of(SP_nonnegative(broadcast_arrays(SP)), broadcast_arrays(P),
                     lon, lat, strict)

\* lines 4617-4629, SP being what line 4615 leaves: SA, then Sstar
SA_Sstar_join(a, b) ==
    IF a.raised THEN Raised ELSE Returned(a.e \o b.e, {})

\* SA_Sstar_from_SP(SP, p, lon, lat), lines 4613-4629
SA_Sstar_from_SP(SP, P, lon, lat, strict) ==
    SA_Sstar_join(SA_from_SP_of(SP_nonnegative(broadcast_arrays(SP)), broadcast_arrays(P),
                                lon, lat, strict),
                  Sstar_from_SP_of(SP_nonnegative(broadcast_arrays(SP)), broadcast_arrays(P),
                                   lon, lat, strict))

(***************************************************************************)
(* SA_Sstar_from_SP as its callers call it, through match_args_return,     *)
(* lines 20-36, with every argument a value without shape ("0d"), a plain  *)
(* array ("nd") or a MaskedArray ("ma").                                   *)
(***************************************************************************)
\* np.ma.filled(ret, np.nan) of a tuple, line 33: it is neither a
\* MaskedArray nor an ndarray, and np.array(ret) is returned, a plain array
\* with one row for every member, the masks dropped
filled_tuple(rows) ==
    Arr([k \in Idx(rows) |-> Arr([i \in Idx(rows[k]) |-> Elem(rows[k][i].v, FALSE)])])

\* lines 32-33, ret being the tuple of the arrays rows
match_args_return_fill(is_masked, rows) ==
    IF ~is_masked THEN [type |-> "ndarray", rows |-> filled_tuple(rows)]
    ELSE [type |-> "tuple", rows |-> rows]

\* lines 34-36: ret[0] is the first row of the array, or the first member of
\* the tuple
match_args_return_first(is_array, ret_) ==
    IF ~is_array THEN [type |-> IF ret_.type = "tuple" THEN "MaskedArray" ELSE "ndarray",
                       rows |-> <<ret_.rows[1]>>]
    ELSE ret_

\* lines 31-36, r being what the function gave for the converted arguments
match_args_return_tuple(kind, r, n) ==
    IF r.raised THEN Raised
    ELSE Returned(match_args_return_first(kind # "0d",
                      match_args_return_fill(kind = "ma",
                          <<SubSeq(r.e, 1, n), SubSeq(r.e, n + 1, 2 * n)>>)), {})

\* the batch as a routine called with a value without shape sees it
First(A) == <<A[1]>>

\* lines 25-31: a value without shape becomes an array of one entry
atleast_1d(kind, A) == IF kind = "0d" THEN First(A) ELSE A

decorated_SA_Sstar_from_SP(kind, SP, P, lon, lat, strict) ==
    match_args_return_tuple(kind,
        SA_Sstar_from_SP(atleast_1d(kind, SP), atleast_1d(kind, P),
                         atleast_1d(kind, lon), atleast_1d(kind, lat), strict),
        Len(atleast_1d(kind, SP)))

(***************************************************************************)
(* SP_from_SA, lines 4326-4337, and SP_from_Sstar, lines 4456-4467, with    *)
(* _SP_from_SA_Baltic, lines 986-1011; the batch SA is SA or Sstar.         *)
(***************************************************************************)
\* _SP_from_SA_Baltic(SA, lon, lat): None, an exception, or the positions at
\* which SP_baltic holds (35 / (SSO - 0.087)) * (SA - 0.087)
SP_from_SA_Baltic(lon, lat, strict) ==
    SA_baltic_rectangle(lon, lat, inds_baltic(lon, lat), strict)

\* (35 / SSO) * (SA - dSA), line 4330
SP_open(A, dSA) ==
    Map2(LAMBDA s_, d : Mul(Const("35/SSO"), Sub(Num(s_), d)), A, dSA)

\* (35 / SSO) * (Sstar + r1 * dSA), line 4459
SP_open_Sstar(A, dSA) ==
    Map2(LAMBDA s_, d : Mul(Const("35/SSO"), Add(Num(s_), Mul(Const("r1"), d))), A, dSA)

\* line 4335: the Baltic values replace the others where SP_baltic is not
\* masked
SP_baltic_replaces(S, A, bal) ==
    Arr([i \in Idx(S) |->
           IF i \in bal.at THEN Elem(Fn("SP_baltic", <<Num(A[i].v)>>), FALSE) ELSE S[i]])

\* lines 4332-4337
SP_from_SA_result(S, A, bal) ==
    IF bal.kind = "raise" THEN Raised
    ELSE Returned(SP_baltic_replaces(S, A, bal), {})

\* SP_from_SA(SA, p, lon, lat), lines 4326-4337
SP_from_SA(A, P, lon, lat, strict) ==
    SP_from_SA_result(SP_open(broadcast_arrays(A),
                              delta_SA(broadcast_arrays(P), lon, lat)),
                      broadcast_arrays(A), SP_from_SA_Baltic(lon, lat, strict))

\* lines 4464-4467: the name indsbaltic of line 4465 is bound nowhere in
\* SP_from_Sstar nor in the module, so that the assignment ends in a
\* NameError whenever SP_baltic is not None
SP_from_Sstar_result(S, A, bal) ==
    IF bal.kind = "None" THEN Returned(S, {}) ELSE Raised

\* SP_from_Sstar(Sstar, p, lon, lat), lines 4456-4467
SP_from_Sstar(A, P, lon, lat, strict) ==
    SP_from_Sstar_result(SP_open_Sstar(broadcast_arrays(A),
                                       delta_SA(broadcast_arrays(P), lon, lat)),
                         broadcast_arrays(A), SP_from_SA_Baltic(lon, lat, strict))

(***************************************************************************)
(* distance, lines 4094-4118.  An argument is held with the number of its  *)
(* dimensions and its entries by rows; a cube has the shape (1, 1, n).     *)
(***************************************************************************)
Scalar(v) == [ndim |-> 0, rows |-> << <<v>> >>]
Vector(V) == [ndim |-> 1, rows |-> <<V>>]
Column(V) == [ndim |-> 2, rows |-> [i \in Idx(V) |-> <<V[i]>>]]
Cube(V) == [ndim |-> 3, rows |-> <<V>>]

atleast_2d(a) == [a EXCEPT !.ndim = IF a.ndim < 2 THEN 2 ELSE a.ndim]
NRows(a) == Len(a.rows)
NCols(a) == Len(a.rows[1])
size(a) == NRows(a) * NCols(a)

\* a test that lets every call through
any_points(lon, lat) == FALSE

\* line 4096
single_point(lon, lat) == size(lon) = 1 /\ size(lat) = 1

\* np.broadcast_arrays, line 4101: the common length n of lengths a, b, c,
\* 0 when there is none
broadcast_length(a, b, c) ==
    IF \E n \in {a, b, c} : \A k \in {a, b, c} : k = 1 \/ k = n
    THEN CHOOSE n \in {a, b, c} : \A k \in {a, b, c} : k = n \/ (k = 1 /\ k <= n)
    ELSE 0

\* the entry (r, c) of a seen through the broadcast
view(a, r, c) ==
    a.rows[IF NRows(a) = 1 THEN 1 ELSE r][IF NCols(a) = 1 THEN 1 ELSE c]

\* lines 4103-4116: one distance for every two successive points of a row,
\* at the pressure 0.5 * (p[:, 0:-1] + p[:, 0:-1])
distance_rows(lon, lat, P, R, C) ==
    Arr([r \in 1..R |->
           Arr([j \in 1..(C - 1) |->
                  Fn("distance", << view(lon, r, j), view(lon, r, j + 1),
                                    view(lat, r, j), view(lat, r, j + 1),
                                    Mid(view(P, r, j), view(P, r, j)) >>)])])

distance_broadcast(lon, lat, P, R, C) ==
    IF R = 0 \/ C = 0 THEN Raised                                 \* line 4101
    ELSE Returned(distance_rows(lon, lat, P, R, C), {})

\* lines 4094-4118, lon and lat being what line 4094 leaves
distance_of(lon, lat, P) ==
    IF single_point(lon, lat) THEN Raised                         \* lines 4096-4097
    ELSE IF lon.ndim # lat.ndim THEN Raised                       \* lines 4098-4099
    ELSE distance_broadcast(lon, lat, P,
                            broadcast_length(NRows(lon), NRows(lat), NRows(P)),
                            broadcast_length(NCols(lon), NCols(lat), NCols(P)))

\* distance(lon, lat, p)
distance(lon, lat, P) == distance_of(atleast_2d(lon), atleast_2d(lat), P)

(***************************************************************************)
(* _dsa_add_barrier, lines 1367-1422.  dsa[j][k] is the anomaly at the      *)
(* neighbouring grid point j of the sample point k; above0[k] tells that    *)
(* the sample lies on or above the barrier line (line 1377) and above[k][j] *)
(* that its neighbour j does (lines 1382-1400), as the comparisons with the *)
(* latitudes of np.interp come out.                                         *)
(***************************************************************************)
\* line 1376: range(0, len(lon.shape)), lon having one dimension whatever
\* the number n of its points
barrier_range(n) == 1..1

\* lines 1403-1404 for the points K: the neighbours that are not on the side
\* of the sample become nan
barrier_exclude(dsa, above0, above, K) ==
    Arr([j \in 1..4 |->
           Arr([k \in Idx(above0) |->
                  IF k \in K /\ above[k][j] # above0[k] THEN NaN ELSE dsa[j][k]])])

\* lines 1406-1418: dsa.mean() is one number, nan when an entry is;
\* inds_nan is then a numpy boolean without shape, and inds_nan[kk] of line
\* 1413 ends in an IndexError
barrier_fill(dsa) ==
    IF \E j \in Idx(dsa) : \E k \in Idx(dsa[j]) : dsa[j][k] = NaN THEN Raised
    ELSE Returned(dsa, {})                                        \* lines 1421-1422

\* _dsa_add_barrier(dsa, lon, lat, longs_ref, lats_ref, dlongs_ref, dlats_ref)
dsa_add_barrier(dsa, above0, above) ==
    barrier_fill(barrier_exclude(dsa, above0, above, barrier_range(Len(above0))))

(***************************************************************************)
(* pot_rho, lines 2641-2645, and the class Gibbs, lines 4718-4902.          *)
(***************************************************************************)
\* pot_rho(SA, t, p, pr): potential_t and rho are decorated, and work on
\* copies of the arrays they are given (lines 27-28)
pot_rho(A, T, P, PR) ==
    Then(potential_t(A, T, P, PR), LAMBDA pt : rho(A, pt, PR))

\* Gibbs.__init__, lines 4733-4734: np.asanyarray of an array is that array
Gibbs_init(A, T, P) == [SA |-> A, t |-> T, p |-> P]

GibbsOps == {"Gibbs.entropy", "Gibbs.rho", "Gibbs.potential_t", "Gibbs.pot_rho"}

\* the method op of the object self called with the reference pressure PR:
\* lines 4800 and 4842 do not pass pr, and the functions take their default
\* pr=0
Gibbs_method(op, self, PR) ==
    CASE op = "Gibbs.entropy" -> Returned(entropy(self.SA, self.t, self.p), {})  \* line 4740
      [] op = "Gibbs.rho" -> Returned(rho(self.SA, self.t, self.p), {})          \* line 4746
      [] op = "Gibbs.potential_t" ->                                             \* line 4800
           Solved(potential_t_run(self.SA, self.t, self.p,
                                  Broadcast(Zero, Len(self.SA))))
      [] op = "Gibbs.pot_rho" ->                                                 \* line 4842
           Returned(pot_rho(self.SA, self.t, self.p, Broadcast(Zero, Len(self.SA))), {})

(***************************************************************************)
(* Inputs.                                                                 *)
(***************************************************************************)
SAVals == {-1, 0, 35}
TVal == Num(10)
PVal == Num(0)
PRVals == {0, 1000}

\* an entry of SA: a value, or a masked entry
SAElems == {Elem(v, FALSE) : v \in SAVals} \cup {Elem(35, TRUE)}

Batches(S, n) == [1..n -> S]

\* x and y: the arguments of a routine other than SA, t and p (rho of
\* SA_from_rho, z and lat of p_from_z, lon and lat of the routines that take
\* SP, which is the batch SA; lon, lat and p of distance).  strict: the build of numpy refuses a boolean
\* index of the wrong length
NoCall == [op |-> "none", ns |-> 0, nt |-> 0, npr |-> 0, pr |-> 0,
           kind |-> "ma", t_type |-> "pt", x |-> <<>>, y |-> <<>>, z |-> <<>>,
           strict |-> FALSE]
NoOut == [raised |-> FALSE, e |-> <<>>, logAt |-> {}, halves |-> 0, evals |-> 0]
NoTwin == [SA |-> <<>>, t |-> <<>>, p |-> <<>>]

\* the variables of the decorator, unused when a routine is called directly
IdleCallers ==
    /\ array = FALSE /\ masked = FALSE
    /\ pc = <<>> /\ args = <<>> /\ ret = <<>> /\ result = <<>>

callerVars == <<array, masked, pc, args, ret, result>>

(***************************************************************************)
(* A routine applied to a batch.                                           *)
(***************************************************************************)
\* the pressures of a call made at the pressure v: v at every entry, masked
\* where p of the batch is
AtPressure(P, v) == Arr([i \in Idx(P) |-> Elem(Num(v), P[i].m)])

\* line 65: the list newargs, the unmasked arguments and then the mask
strip_mask_call(s) ==
    IF s.raised THEN Raised ELSE Returned(<<s.SA>> \o s.rest \o <<s.mask>>, {})

\* the routines of the library applied to the batch
RunBatch(c, A, T, P) ==
    CASE c.op = "_gibbs" -> gibbs(c.ns, c.nt, c.npr, A, T, P)
      [] c.op = "_entropy_part" ->
           IF c.kind = "0d" THEN entropy_part("0d", First(A), First(T), First(P))
           ELSE entropy_part(c.kind, A, T, P)
      [] c.op = "_entropy_part_zerop" ->
           IF c.kind = "0d" THEN entropy_part_zerop("0d", First(A), First(T))
           ELSE entropy_part_zerop(c.kind, A, T)
      [] c.op = "_gibbs_pt0_pt0" ->
           IF c.kind = "0d" THEN gibbs_pt0_pt0("0d", First(A), First(T))
           ELSE gibbs_pt0_pt0(c.kind, A, T)
      [] c.op = "entropy" -> Returned(entropy(A, T, P), {})
      [] c.op = "rho" -> Returned(rho(A, T, P), {})
      [] c.op = "potential_t" ->
           Solved(potential_t_run(A, T, P, Broadcast(Num(c.pr), Len(A))))
      [] c.op = "pt0_from_t" -> Solved(pt0_from_t_run(A, T, P))
      [] c.op = "CT_from_pt" -> Returned(CT_from_pt(A, T), {})
      [] c.op = "pt_from_CT" ->
           Then(pt_from_CT_run(A, T), LAMBDA st : [Solved(st) EXCEPT !.evals = st.evals])
      [] c.op = "t_from_entropy" -> Solved(t_from_entropy_run(A, T, c.t_type))
      [] c.op = "entropy_from_t" -> entropy_from_t_call(A, T, c.t_type)
      [] c.op = "t_from_CT" -> Returned(t_from_CT(A, T, AtPressure(P, c.pr)), {})
      [] c.op = "t_round_trip" ->
           Then(CT_from_t(A, T, P), LAMBDA CT : Returned(t_from_CT(A, CT, P), {}))
      [] c.op = "pt_round_trip" ->
           Then(CT_from_pt(A, T), LAMBDA CT : Returned(pt_from_CT(A, CT), {}))
      [] c.op = "SA_from_rho" -> Solved(SA_from_rho_run(c.x, T, P))
      [] c.op = "p_from_z" -> Solved(p_from_z_run(c.x, c.y))

\* strip_mask itself
RunStrip(c, A, T, P) ==
    CASE c.op = "strip_mask" ->
           IF c.kind = "0d" THEN strip_mask_call(strip_mask("0d", First(A), <<First(T), First(P)>>))
           ELSE strip_mask_call(strip_mask(c.kind, A, <<T, P>>))

\* the conversions from and to Practical Salinity
RunSP(c, A, T, P) ==
    CASE c.op = "SA_from_SP" -> SA_from_SP(A, P, c.x, c.y, c.strict)
      [] c.op = "Sstar_from_SP" -> Sstar_from_SP(A, P, c.x, c.y, c.strict)
      [] c.op = "SA_Sstar_from_SP" -> SA_Sstar_from_SP(A, P, c.x, c.y, c.strict)
      [] c.op = "decorated.SA_Sstar_from_SP" ->
           decorated_SA_Sstar_from_SP(c.kind, A, P, c.x, c.y, c.strict)
      [] c.op = "SP_from_SA" -> SP_from_SA(A, P, c.x, c.y, c.strict)
      [] c.op = "SP_from_Sstar" -> SP_from_Sstar(A, P, c.x, c.y, c.strict)

\* the routines that take coordinates
RunGrid(c, A, T, P) ==
    CASE c.op = "_dsa_add_barrier" -> dsa_add_barrier(c.x, c.y, c.z)
      [] c.op = "distance" -> distance(c.x, c.y, c.z)

\* pot_rho and the methods of the class Gibbs
RunGibbs(c, A, T, P) ==
    CASE c.op = "pot_rho" ->
           Returned(pot_rho(A, T, P, Broadcast(Num(c.pr), Len(A))), {})
      [] c.op \in GibbsOps ->
           Gibbs_method(c.op, Gibbs_init(A, T, P), Broadcast(Num(c.pr), Len(A)))

\* the routine named by c.op
Run(c, A, T, P) ==
    CASE c.op = "strip_mask" -> RunStrip(c, A, T, P)
      [] c.op \in {"SA_from_SP", "Sstar_from_SP", "SA_Sstar_from_SP", "SP_from_SA",
                   "SP_from_Sstar", "decorated.SA_Sstar_from_SP"} -> RunSP(c, A, T, P)
      [] c.op \in {"distance", "_dsa_add_barrier"} -> RunGrid(c, A, T, P)
      [] c.op \in GibbsOps \cup {"pot_rho"} -> RunGibbs(c, A, T, P)
      [] OTHER -> RunBatch(c, A, T, P)

\* the array SA of the caller as the call c leaves it.  t and p are only
\* read: np.ma.filled and the arithmetic build new arrays, and the names t,
\* pt, p are rebound, never assigned through an index.
SA_after(c, A, T) ==
    CASE c.op \in {"_gibbs", "entropy", "rho", "SA_from_rho", "p_from_z", "distance",
                   "SP_from_SA", "SP_from_Sstar", "pot_rho", "_dsa_add_barrier"} -> A
      \* the functions called are decorated: they work on copies, lines 27-28
      [] c.op \in GibbsOps \cup {"decorated.SA_Sstar_from_SP"} -> A
      [] c.op \in {"_entropy_part", "_entropy_part_zerop", "_gibbs_pt0_pt0", "strip_mask"} ->
           IF c.kind = "0d" THEN A
           ELSE strip_mask(c.kind, A, <<T>>).after               \* lines 52-54
      [] c.op \in {"pt0_from_t", "CT_from_pt", "pt_from_CT", "t_round_trip", "pt_round_trip",
                   "t_from_CT"} ->
           strip_mask("ma", A, <<T>>).after                      \* lines 52-54
      [] c.op \in {"SA_from_SP", "Sstar_from_SP", "SA_Sstar_from_SP"} ->
           clamp(A)                                              \* lines 4196, 4532, 4615
      [] c.op = "entropy_from_t" -> clamp(A)                     \* line 3796
      [] c.op \in {"potential_t", "t_from_entropy"} ->
           \* lines 2121 and 3719, then the strip_mask of the helpers
           strip_mask("ma", clamp(A), <<T>>).after

\* the call c is made on the batch, and on the twin batch when there is one
DoRun(c, R(_, _, _, _)) ==
    /\ call' = c
    /\ \E r \in {Arr([b \in 1..2 |->
                    IF b = 1 THEN R(c, SA, t, p)
                    ELSE IF twin = NoTwin THEN NoOut
                    ELSE R(c, twin.SA, twin.t, twin.p)])} :
         out' = r[1] /\ out2' = r[2]
    /\ held' = [SA |-> SA_after(c, SA, t), t |-> t, p |-> p]
    /\ UNCHANGED <<SA, t, p, twin, callerVars>>

Do(c) == DoRun(c, RunBatch)

DoStrip(c) == DoRun(c, RunStrip)

DoSP(c) == DoRun(c, RunSP)

DoGrid(c) == DoRun(c, RunGrid)

DoGibbs(c) == DoRun(c, RunGibbs)

Call_gibbs ==
    \E ns \in 0..MaxOrder, nt \in 0..MaxOrder, npr \in 0..MaxOrder :
        /\ call.op = "none"
        /\ Do([NoCall EXCEPT !.op = "_gibbs", !.ns = ns, !.nt = nt, !.npr = npr])

\* a helper polynomial called with SA a MaskedArray, a plain ndarray or a
\* value without shape
Call_helper ==
    \E h \in {"_entropy_part", "_entropy_part_zerop", "_gibbs_pt0_pt0"},
       k \in {"ma", "nd", "0d"} :
        /\ call.op = "none"
        /\ k = "nd" => \A i \in Idx(SA) : ~SA[i].m
        /\ k = "0d" => ~SA[1].m
        /\ Do([NoCall EXCEPT !.op = h, !.kind = k])

\* strip_mask(SA, t, p) with SA a MaskedArray, a plain ndarray or a value
\* without shape
Call_strip_mask ==
    \E k \in {"ma", "nd", "0d"} :
        /\ call.op = "none"
        /\ k = "nd" => \A i \in Idx(SA) : ~SA[i].m
        /\ k = "0d" => ~SA[1].m
        /\ DoStrip([NoCall EXCEPT !.op = "strip_mask", !.kind = k])

Call_entropy ==
    /\ call.op = "none"
    /\ Do([NoCall EXCEPT !.op = "entropy"])

Call_rho ==
    /\ call.op = "none"
    /\ Do([NoCall EXCEPT !.op = "rho"])

Call_potential_t ==
    \E pr \in PRVals :
        /\ call.op = "none"
        /\ Do([NoCall EXCEPT !.op = "potential_t", !.pr = pr])

Call_pt0_from_t ==
    /\ call.op = "none"
    /\ Do([NoCall EXCEPT !.op = "pt0_from_t"])

Call_CT_from_pt ==
    /\ call.op = "none"
    /\ Do([NoCall EXCEPT !.op = "CT_from_pt"])

Call_pt_from_CT ==
    /\ call.op = "none"
    /\ Do([NoCall EXCEPT !.op = "pt_from_CT"])

\* the values of the keyword t_type: the two the routines document, and
\* another string
TTypes == {"pt", "CT", "t"}

Call_entropy_from_t ==
    \E tt \in TTypes :
        /\ call.op = "none"
        /\ Do([NoCall EXCEPT !.op = "entropy_from_t", !.t_type = tt])

Call_t_from_entropy ==
    \E tt \in TTypes :
        /\ call.op = "none"
        /\ Do([NoCall EXCEPT !.op = "t_from_entropy", !.t_type = tt])

\* t_from_CT(SA, CT, p), the batch t being CT, at the pressure 0 or 1000
Call_t_from_CT ==
    \E pr \in PRVals :
        /\ call.op = "none"
        /\ Do([NoCall EXCEPT !.op = "t_from_CT", !.pr = pr])

\* t_from_CT(SA, CT_from_t(SA, t, p), p)
Call_t_round_trip ==
    /\ call.op = "none"
    /\ Do([NoCall EXCEPT !.op = "t_round_trip"])

\* pt_from_CT(SA, CT_from_pt(SA, pt)), the batch t being pt
Call_pt_round_trip ==
    /\ call.op = "none"
    /\ Do([NoCall EXCEPT !.op = "pt_round_trip"])

\* densities: 0, of pure water, of sea water, of a denser fluid, masked
RhoElems ==
    {Elem(Num(0), FALSE), Elem(Num(1000), FALSE), Elem(Num(1025), FALSE),
     Elem(Num(1200), FALSE), Elem(Num(1025), TRUE)}

\* SA_from_rho(rho, t, p) reads t and p of the batch and not its SA: it is
\* called on the batches of one salinity
Call_SA_from_rho ==
    \E rho_ \in Batches(RhoElems, BatchLen) :
        /\ call.op = "none"
        /\ \A i \in Idx(SA) : SA[i] = Elem(35, FALSE)
        /\ Do([NoCall EXCEPT !.op = "SA_from_rho", !.x = rho_])

\* heights and latitudes, present or masked
ZElems == {Elem(Num(-1000), FALSE), Elem(Num(-1000), TRUE)}
LatElems == {Elem(Num(45), FALSE), Elem(Num(45), TRUE)}

Call_p_from_z ==
    \E z_ \in Batches(ZElems, BatchLen), lat_ \in Batches(LatElems, BatchLen) :
        /\ call.op = "none"
        /\ Do([NoCall EXCEPT !.op = "p_from_z", !.x = z_, !.y = lat_])

\* the batches: every entry of SA negative, zero, positive or masked, and
\* every entry of t and p present or masked
TPElems ==
    { [t |-> Elem(TVal, tm), p |-> Elem(PVal, pm)] :
        tm \in BOOLEAN, pm \in BOOLEAN } \ { [t |-> Elem(TVal, TRUE), p |-> Elem(PVal, TRUE)] }

InitBatch ==
    /\ SA \in Batches(SAElems, BatchLen)
    /\ \E tp \in Batches(TPElems, BatchLen) :
         /\ t = [i \in 1..BatchLen |-> tp[i].t]
         /\ p = [i \in 1..BatchLen |-> tp[i].p]
    /\ call = NoCall /\ out = NoOut
    /\ held = [SA |-> SA, t |-> t, p |-> p]

Init == InitBatch /\ twin = NoTwin /\ out2 = NoOut /\ IdleCallers

Next ==
    \/ Call_gibbs
    \/ Call_helper
    \/ Call_entropy
    \/ Call_rho
    \/ Call_potential_t
    \/ Call_pt0_from_t
    \/ Call_CT_from_pt
    \/ Call_pt_from_CT
    \/ Call_entropy_from_t
    \/ Call_t_from_entropy
    \/ Call_t_from_CT
    \/ Call_t_round_trip
    \/ Call_pt_round_trip
    \/ Call_SA_from_rho
    \/ Call_p_from_z

Spec == Init /\ [][Next]_vars

(***************************************************************************)
(* The conversions from Practical Salinity, the batch SA being SP.         *)
(***************************************************************************)
\* places: the open Pacific, the Baltic, inside the rectangle of line 1083
\* and outside the polygon
Places == { [lon |-> 188, lat |-> 4], [lon |-> 20, lat |-> 59], [lon |-> 8, lat |-> 60] }

SPCall(op, pl, strict) ==
    [NoCall EXCEPT !.op = op,
                   !.x = [i \in 1..BatchLen |-> pl[i].lon],
                   !.y = [i \in 1..BatchLen |-> pl[i].lat],
                   !.strict = strict]

Call_SA_from_SP ==
    \E pl \in Batches(Places, BatchLen), strict \in BOOLEAN :
        /\ call.op = "none"
        /\ DoSP(SPCall("SA_from_SP", pl, strict))

Call_Sstar_from_SP ==
    \E pl \in Batches(Places, BatchLen), strict \in BOOLEAN :
        /\ call.op = "none"
        /\ DoSP(SPCall("Sstar_from_SP", pl, strict))

Call_SA_Sstar_from_SP ==
    \E pl \in Batches(Places, BatchLen), strict \in BOOLEAN :
        /\ call.op = "none"
        /\ DoSP(SPCall("SA_Sstar_from_SP", pl, strict))

\* the batch SA being SA
Call_SP_from_SA ==
    \E pl \in Batches(Places, BatchLen), strict \in BOOLEAN :
        /\ call.op = "none"
        /\ DoSP(SPCall("SP_from_SA", pl, strict))

\* the batch SA being Sstar
Call_SP_from_Sstar ==
    \E pl \in Batches(Places, BatchLen), strict \in BOOLEAN :
        /\ call.op = "none"
        /\ DoSP(SPCall("SP_from_Sstar", pl, strict))

\* SA_Sstar_from_SP called through its decorator with values without shape,
\* plain arrays or MaskedArrays
Call_decorated_SA_Sstar_from_SP ==
    \E pl \in Batches(Places, BatchLen), strict \in BOOLEAN, k \in {"0d", "nd", "ma"} :
        /\ call.op = "none"
        /\ k # "ma" => \A i \in Idx(SA) : ~SA[i].m /\ ~p[i].m
        /\ DoSP([SPCall("decorated.SA_Sstar_from_SP", pl, strict) EXCEPT !.kind = k])

NextSP ==
    \/ Call_decorated_SA_Sstar_from_SP
    \/ Call_SA_from_SP
    \/ Call_Sstar_from_SP
    \/ Call_SA_Sstar_from_SP
    \/ Call_SP_from_SA
    \/ Call_SP_from_Sstar

SpecSP == Init /\ [][NextSP]_vars

(***************************************************************************)
(* distance called with a value, a vector, a column or a cube of points.   *)
(***************************************************************************)
Points(n, first) == [j \in 1..n |-> Num(first + j)]

Shapes(first) ==
    {Scalar(Num(first))}
    \cup {Vector(Points(n, first)) : n \in 1..MaxPoints}
    \cup {Column(Points(n, first)) : n \in 2..MaxPoints}

Call_distance ==
    \E lon \in Shapes(150) \cup {Cube(Points(2, 150))},
       lat \in Shapes(30), P \in Shapes(1000) :
        /\ call.op = "none"
        /\ DoGrid([NoCall EXCEPT !.op = "distance", !.x = lon, !.y = lat, !.z = P])

NextDistance == Call_distance

\* distance reads neither SA, t nor p of the batch: one batch is enough
InitDistance ==
    /\ Init
    /\ \A i \in Idx(SA) : SA[i] = Elem(35, FALSE) /\ ~t[i].m /\ ~p[i].m

SpecDistance == InitDistance /\ [][NextDistance]_vars

(***************************************************************************)
(* _dsa_add_barrier called with one to BatchLen sample points near the     *)
(* barrier, each with its four neighbouring grid values.                   *)
(***************************************************************************)
\* the anomaly at the neighbour j of the sample k
GridValue(j, k) == Num(10 * k + j)

Call_dsa_add_barrier ==
    \E n \in 1..BatchLen :
        \E above0 \in [1..n -> BOOLEAN], above \in [1..n -> [1..4 -> BOOLEAN]] :
            /\ call.op = "none"
            /\ DoGrid([NoCall EXCEPT !.op = "_dsa_add_barrier",
                                 !.x = [j \in 1..4 |-> [k \in 1..n |-> GridValue(j, k)]],
                                 !.y = above0, !.z = above])

NextBarrier == Call_dsa_add_barrier

SpecBarrier == InitDistance /\ [][NextBarrier]_vars

(***************************************************************************)
(* The methods of a Gibbs object made of the batch, and the functions of   *)
(* the same name.                                                          *)
(***************************************************************************)
Call_pot_rho ==
    \E pr \in PRVals :
        /\ call.op = "none"
        /\ DoGibbs([NoCall EXCEPT !.op = "pot_rho", !.pr = pr])

\* Gibbs(SA, t, p).entropy() and Gibbs(SA, t, p).rho()
Call_Gibbs_method ==
    \E op \in {"Gibbs.entropy", "Gibbs.rho"} :
        /\ call.op = "none"
        /\ DoGibbs([NoCall EXCEPT !.op = op])

\* Gibbs(SA, t, p).potential_t(pr) and Gibbs(SA, t, p).pot_rho(pr)
Call_Gibbs_method_pr ==
    \E op \in {"Gibbs.potential_t", "Gibbs.pot_rho"}, pr \in PRVals :
        /\ call.op = "none"
        /\ DoGibbs([NoCall EXCEPT !.op = op, !.pr = pr])

NextGibbs ==
    \/ Call_entropy
    \/ Call_rho
    \/ Call_potential_t
    \/ Call_pot_rho
    \/ Call_Gibbs_method
    \/ Call_Gibbs_method_pr

SpecGibbs == Init /\ [][NextGibbs]_vars

\* strip_mask called directly, and through the three helpers that start
\* with it
NextStrip ==
    \/ Call_strip_mask
    \/ Call_helper

SpecStrip == Init /\ [][NextStrip]_vars

(***************************************************************************)
(* Two batches that differ in the salinity of exactly one entry, and the   *)
(* same routine applied to both.                                           *)
(***************************************************************************)
InitTwin ==
    /\ InitBatch
    /\ \E j \in 1..BatchLen, e \in SAElems :
         /\ e # SA[j]
         /\ twin = [SA |-> [SA EXCEPT ![j] = e], t |-> t, p |-> p]
    /\ out2 = NoOut
    /\ IdleCallers

SpecTwin == InitTwin /\ [][Next]_vars

(***************************************************************************)
(* match_args_return, lines 9-36, decorating potential_t.  The decorator   *)
(* object is created once, when the function is defined: its attributes    *)
(* array and masked are shared by all the calls of the function.           *)
(*                                                                         *)
(* A call is [SA, t, p, pr |-> the form of each argument, pkw, prkw |->    *)
(* whether p and pr are passed by keyword, hole |-> whether the first      *)
(* entry of t is missing].  The forms are "scalar", "array" (a list or a   *)
(* plain ndarray), "masked" (a MaskedArray) and, for pr, "none".           *)
(***************************************************************************)
NCallers == 2
Callers == 1..NCallers

Forms == {"scalar", "array", "masked"}

AllCalls ==
    { k \in [SA : Forms, t : Forms, p : Forms, pr : Forms \cup {"none"},
             pkw : BOOLEAN, prkw : BOOLEAN, hole : BOOLEAN] :
        /\ k.pr = "none" => ~k.prkw
        /\ (k.pkw /\ k.pr # "none") => k.prkw }

\* the calls that pass SA, t and p only, by position
PlainCalls ==
    { k \in AllCalls : k.pr = "none" /\ ~k.pkw /\ ~k.hole /\ k.t = k.SA /\ k.p = k.SA }

\* an argument as the caller passes it: its entries, each with a data value,
\* a mask bit and whether the data is not finite
RawLen(form) == IF form = "scalar" THEN 1 ELSE BatchLen
Raw(form, v, hole) ==
    Arr([i \in 1..RawLen(form) |->
           [v |-> v,
            m |-> form = "masked" /\ hole /\ i = 1,
            nan |-> form # "masked" /\ hole /\ i = 1]])

\* the arguments the decorator examines: the positional ones, then the
\* keyword p when there is one (lines 21-24)
Examined(k) ==
    <<k.SA, k.t, k.p>> \o (IF k.pr # "none" /\ ~k.prkw THEN <<k.pr>> ELSE <<>>)

\* line 25: hasattr(a, '__iter__') for some examined argument
any_iter(k) == \E j \in 1..Len(Examined(k)) : Examined(k)[j] # "scalar"
\* line 26: np.ma.isMaskedArray(a) for some examined argument
any_masked(k) == \E j \in 1..Len(Examined(k)) : Examined(k)[j] = "masked"

\* lines 27-28: np.ma.atleast_1d(np.ma.masked_invalid(a)).astype(float)
masked_invalid(R) == Arr([i \in Idx(R) |-> Elem(R[i].v, R[i].m \/ R[i].nan)])
\* np.asanyarray(pr), line 2117, of a keyword the decorator passes through
asanyarray(R) == Arr([i \in Idx(R) |-> Elem(R[i].v, R[i].m)])

\* numpy broadcasting of a one-entry array against n entries
Stretch(A, n) == IF Len(A) = n THEN A ELSE Arr([i \in 1..n |-> A[1]])

\* lines 27-31: the arguments are converted and the function is called
call_func(k) ==
    LET a == masked_invalid(Raw(k.SA, 35, FALSE))
        b == masked_invalid(Raw(k.t, TVal, k.hole))
        c == masked_invalid(Raw(k.p, PVal, FALSE))
        d == IF k.pr = "none" THEN Broadcast(Zero, 1)           \* pr=0
             ELSE IF k.prkw THEN asanyarray(Raw(k.pr, Zero, FALSE))
             ELSE masked_invalid(Raw(k.pr, Zero, FALSE))
        n == IF Len(a) > 1 \/ Len(b) > 1 \/ Len(c) > 1 \/ Len(d) > 1
             THEN BatchLen ELSE 1
    IN  potential_t(Stretch(a, n), Stretch(b, n), Stretch(c, n), Stretch(d, n))

\* line 33: np.ma.filled(ret, np.nan)
filled_nan(R) == Arr([i \in Idx(R) |-> Elem(IF R[i].m THEN NaN ELSE R[i].v, FALSE)])

batchVars == <<SA, t, p, call, out, twin, out2, held>>

NoResult == [scalar |-> FALSE, ma |-> FALSE, e |-> <<>>]
NoArgs == [SA |-> "scalar", t |-> "scalar", p |-> "scalar", pr |-> "none",
           pkw |-> FALSE, prkw |-> FALSE, hole |-> FALSE]

\* lines 20-24: a caller enters __call__ with the call k
Enter(c, K) ==
    /\ pc[c] = "idle"
    /\ \E k \in K : args' = [args EXCEPT ![c] = k]
    /\ pc' = [pc EXCEPT ![c] = "l25"]
    /\ UNCHANGED <<array, masked, ret, result, batchVars>>

\* line 25
SetArray(c) ==
    /\ pc[c] = "l25"
    /\ array' = any_iter(args[c])
    /\ pc' = [pc EXCEPT ![c] = "l26"]
    /\ UNCHANGED <<masked, args, ret, result, batchVars>>

\* line 26
SetMasked(c) ==
    /\ pc[c] = "l26"
    /\ masked' = any_masked(args[c])
    /\ pc' = [pc EXCEPT ![c] = "l27"]
    /\ UNCHANGED <<array, args, ret, result, batchVars>>

\* lines 27-31
CallFunc(c) ==
    /\ pc[c] = "l27"
    /\ ret' = [ret EXCEPT ![c] = [ma |-> TRUE, e |-> call_func(args[c])]]
    /\ pc' = [pc EXCEPT ![c] = "l32"]
    /\ UNCHANGED <<array, masked, args, result, batchVars>>

\* lines 32-33
Fill(c) ==
    /\ pc[c] = "l32"
    /\ ret' = [ret EXCEPT ![c] =
                 IF ~masked THEN [ma |-> FALSE, e |-> filled_nan(ret[c].e)]
                 ELSE ret[c]]
    /\ pc' = [pc EXCEPT ![c] = "l34"]
    /\ UNCHANGED <<array, masked, args, result, batchVars>>

\* lines 34-36
Return(c) ==
    /\ pc[c] = "l34"
    /\ result' = [result EXCEPT ![c] =
                    IF ~array
                    THEN [scalar |-> TRUE, ma |-> ret[c].ma, e |-> <<ret[c].e[1]>>]
                    ELSE [scalar |-> FALSE, ma |-> ret[c].ma, e |-> ret[c].e]]
    /\ pc' = [pc EXCEPT ![c] = "done"]
    /\ UNCHANGED <<array, masked, args, ret, batchVars>>

\* the caller has its result and may call again
Again(c) ==
    /\ pc[c] = "done"
    /\ pc' = [pc EXCEPT ![c] = "idle"]
    /\ result' = [result EXCEPT ![c] = NoResult]
    /\ ret' = [ret EXCEPT ![c] = [ma |-> FALSE, e |-> <<>>]]
    /\ args' = [args EXCEPT ![c] = NoArgs]
    /\ UNCHANGED <<array, masked, batchVars>>

InitCallers ==
    /\ SA = <<>> /\ t = <<>> /\ p = <<>>
    /\ call = NoCall /\ out = NoOut /\ twin = NoTwin /\ out2 = NoOut
    /\ held = NoTwin
    /\ array = FALSE /\ masked = FALSE
    /\ pc = [c \in Callers |-> "idle"]
    /\ args = [c \in Callers |-> NoArgs]
    /\ ret = [c \in Callers |-> [ma |-> FALSE, e |-> <<>>]]
    /\ result = [c \in Callers |-> NoResult]

\* one caller, any call, one call after the other
NextSeq ==
    \/ Enter(1, AllCalls)
    \/ SetArray(1)
    \/ SetMasked(1)
    \/ CallFunc(1)
    \/ Fill(1)
    \/ Return(1)
    \/ Again(1)

SpecSeq == InitCallers /\ [][NextSeq]_vars

\* several callers (threads) of the same decorated function; a thread can
\* be preempted between any two lines of __call__
NextConc ==
    \E c \in Callers :
        \/ Enter(c, PlainCalls)
        \/ SetArray(c)
        \/ SetMasked(c)
        \/ CallFunc(c)
        \/ Fill(c)
        \/ Return(c)
        \/ Again(c)

SpecConc == InitCallers /\ [][NextConc]_vars

(***************************************************************************)
(* Properties.                                                             *)
(***************************************************************************)
Undef == <<"undef", <<>>>>
\* what the caller can observe of an entry: its value, or that it is masked
Obs(e) == IF e.m THEN Undef ELSE e.v

Called(op) == call.op = op /\ ~out.raised

\* a term that holds a negative salinity
RECURSIVE HasNegSal(_)
HasNegSal(x) ==
    CASE x[1] = "sal" -> x[2][1] < 0
      [] x[1] \in {"num", "const", "flag", "undef"} -> FALSE
      [] OTHER -> \E k \in 1..Len(x[2]) : HasNegSal(x[2][k])

\* C1 (as claimed): for the orders with ns >= 1, every entry of the batch
\* whose SA is <= 0 is masked in the result of _gibbs.
C1_Claim ==
    (Called("_gibbs") /\ call.ns >= 1) =>
        \A i \in 1..BatchLen : (SA[i].m \/ SA[i].v <= 0) => out.e[i].m

\* the scale factors of the six orders with ns = 0, as the claim lists them
C2_scale(b) ==
    CASE b = "g000" -> Const("1")
      [] b = "g010" -> Const("0.025")
      [] b = "g001" -> Const("1e-8")
      [] b = "g011" -> Const("2.5e-10")
      [] b = "g020" -> Const("0.000625")
      [] b = "g002" -> Const("1e-16")

\* C2 (as claimed): on a batch whose SA is <= 0 throughout, an order with
\* ns = 0 returns scale(order) * (g03 + 0), with the scale factor the order
\* has when the salinity branch is evaluated.
C2_Claim ==
    (Called("_gibbs") /\ call.ns = 0
       /\ \A i \in 1..BatchLen : ~SA[i].m /\ SA[i].v <= 0) =>
        \A i \in 1..BatchLen :
            ~out.e[i].m =>
                out.e[i].v =
                    LET b == branch(call.ns, call.nt, call.npr)
                    IN  Fn("gibbs", <<C2_scale(b), G03(b, t[i].v, p[i].v), Zero>>)

\* C3 (as claimed): the result at an entry, value and definedness, depends
\* on the inputs at that entry alone: two batches that agree at entry i
\* give the same result at i.
C3_Claim ==
    (call.op # "none" /\ ~out.raised /\ ~out2.raised) =>
        \A i \in 1..Len(out.e) :
            (SA[i] = twin.SA[i] /\ t[i] = twin.t[i] /\ p[i] = twin.p[i]) =>
                Obs(out.e[i]) = Obs(out2.e[i])

\* the ten triples the engine is documented to support
SupportedOrders ==
    { <<0,0,0>>, <<1,0,0>>, <<0,1,0>>, <<0,0,1>>, <<1,1,0>>, <<1,0,1>>,
      <<0,1,1>>, <<2,0,0>>, <<0,2,0>>, <<0,0,2>> }

\* C4: _gibbs raises exactly when the requested triple is not one of the
\* ten supported ones; a supported triple returns one entry per entry of the
\* batch, whatever SA, t and p are (SA = 0 included).
C4_RaisesIffUnsupported ==
    call.op = "_gibbs" =>
        /\ out.raised <=> <<call.ns, call.nt, call.npr>> \notin SupportedOrders
        /\ ~out.raised => Len(out.e) = BatchLen

C4_Witness ==
    /\ call.op = "_gibbs" /\ call.ns = 3 /\ out.raised

\* C5: every entry at which SA, t or p is masked on input is masked in the
\* result of _gibbs, so the value computed from the placeholders is never
\* returned as a defined value.
C5_MaskedInMaskedOut ==
    Called("_gibbs") =>
        \A i \in 1..BatchLen : (SA[i].m \/ t[i].m \/ p[i].m) => out.e[i].m

\* a supported order returned a value computed from the placeholder p = 10
\* at an entry whose p was masked, and the entry is masked
C5_Witness ==
    /\ Called("_gibbs") /\ call.nt = 1 /\ call.ns = 0
    /\ \E i \in 1..BatchLen :
         /\ p[i].m /\ ~SA[i].m /\ SA[i].v > 0
         /\ out.e[i].m
         /\ out.e[i].v[2][2] = G03("g010", t[i].v, Num(FillP))

CoreOps ==
    {"entropy", "rho", "potential_t", "pt0_from_t", "CT_from_pt", "pt_from_CT",
     "t_from_entropy"}

\* C6 (as claimed): at an entry with SA < 0 each core operation returns a
\* defined value, the one it returns when SA is 0 at that entry.
C6_Claim ==
    (call.op \in CoreOps) =>
        \A i \in 1..BatchLen :
            (/\ ~SA[i].m /\ SA[i].v < 0 /\ ~t[i].m /\ ~p[i].m
             /\ twin.SA[i] = Elem(0, FALSE)) =>
                /\ ~out.e[i].m
                /\ out.e[i].v = out2.e[i].v

\* C7: no defined entry of a result is computed from a negative salinity
\* (an entry with SA < 0 is evaluated with SA = 0 or is masked), and the
\* logarithm is taken only at entries with SA > 0.
C7_NoNegativeSalinity ==
    (call.op # "none" /\ ~out.raised) =>
        /\ \A i \in 1..Len(out.e) : ~out.e[i].m => ~HasNegSal(out.e[i].v)
        /\ \A i \in out.logAt : ~SA[i].m /\ SA[i].v > 0

\* a solver returned a defined value at an entry whose SA is negative
C7_Witness ==
    /\ Called("potential_t")
    /\ \E i \in 1..BatchLen : ~SA[i].m /\ SA[i].v < 0 /\ ~out.e[i].m

\* C8 (as claimed): pt0_from_t(SA, t, p) and potential_t(SA, t, p, pr = 0)
\* return the same result at every entry, defined or undefined.
C8_Claim ==
    Called("pt0_from_t") =>
        \A i \in 1..BatchLen :
            Obs(out.e[i]) = Obs(potential_t(SA, t, p, Broadcast(Zero, BatchLen))[i])

\* C9 (as claimed): whatever the interleaving of the calls, the result a
\* call returns is a scalar or an array, masked or NaN-filled, according to
\* the arguments of that call.
C9_Claim ==
    \A c \in Callers :
        pc[c] = "done" =>
            /\ result[c].scalar <=> ~any_iter(args[c])
            /\ result[c].ma <=> any_masked(args[c])

\* the forms of all the arguments of a call, keywords included
AllForms(k) == {k.SA, k.t, k.p} \cup (IF k.pr = "none" THEN {} ELSE {k.pr})

\* C10 (as claimed): the result is a scalar exactly when every argument,
\* positional or keyword, is a scalar, and otherwise an array of the shape
\* of the inputs; it is a masked array exactly when some argument is one,
\* and otherwise a plain array whose undefined entries are NaN.
C10_Claim ==
    \A c \in Callers :
        pc[c] = "done" =>
            /\ result[c].scalar <=> AllForms(args[c]) = {"scalar"}
            /\ ~result[c].scalar =>
                 /\ Len(result[c].e) = BatchLen
                 /\ result[c].ma <=> "masked" \in AllForms(args[c])
                 /\ ~result[c].ma => \A i \in 1..Len(result[c].e) : ~result[c].e[i].m

\* C11 (as claimed): after a call of _gibbs, of a helper polynomial or of
\* the body of a solver, the arrays SA, t and p of the caller hold the values
\* and the masks they held before the call.
C11_Claim ==
    call.op \in {"_gibbs", "_entropy_part", "_entropy_part_zerop", "_gibbs_pt0_pt0",
                 "potential_t", "t_from_entropy"} =>
        /\ held.SA = SA
        /\ held.t = t
        /\ held.p = p

(***************************************************************************)
(* Termination of the solvers.                                             *)
(***************************************************************************)
Solvers == {"potential_t", "pt0_from_t", "pt_from_CT", "t_from_entropy",
            "SA_from_rho", "p_from_z"}

\* the Newton updates of the claimed passes, two to a pass: two passes for
\* potential_t, pt0_from_t and SA_from_rho, one and a half for pt_from_CT,
\* three for t_from_entropy, one for p_from_z
ClaimedHalves(op) ==
    CASE op \in {"potential_t", "pt0_from_t", "SA_from_rho"} -> 4
      [] op = "pt_from_CT" -> 3
      [] op = "t_from_entropy" -> 6
      [] op = "p_from_z" -> 2

\* C12: every solver ends after its fixed number of corrector passes, whatever
\* the batch holds: it returns, and it has performed exactly the Newton updates
\* of that number of passes, none fewer for an early exit.
C12_FixedPasses ==
    call.op \in Solvers => ~out.raised /\ out.halves = ClaimedHalves(call.op)

\* potential_t with pr = p on entries that are all defined: the first estimate
\* is already t, the discrepancy is zero, and both passes are still performed
C12_Witness ==
    /\ call.op = "potential_t" /\ call.pr = 0
    /\ \A i \in Idx(SA) : ~SA[i].m /\ SA[i].v = 35 /\ ~t[i].m /\ ~p[i].m
    /\ out.halves = 4

(***************************************************************************)
(* Idempotence of potential_t.                                             *)
(***************************************************************************)
\* the entry i of the batch is defined and its salinity is positive
DefinedPositive(i) == ~SA[i].m /\ SA[i].v > 0 /\ ~t[i].m /\ ~p[i].m

\* C13: potential_t(SA, t, p, pr) with pr equal to p gives back, at every
\* defined entry whose salinity is positive, the value of t itself, unmasked.
C13_Idempotent ==
    (call.op = "potential_t" /\ \A i \in Idx(p) : p[i].v = Num(call.pr)) =>
        \A i \in Idx(SA) : DefinedPositive(i) => out.e[i] = Elem(t[i].v, FALSE)

\* a defined entry next to a masked one, pr = p
C13_Witness ==
    /\ call.op = "potential_t" /\ \A i \in Idx(p) : p[i].v = Num(call.pr)
    /\ DefinedPositive(1) /\ SA[2].m
    /\ out.e[1] = Elem(TVal, FALSE)

(***************************************************************************)
(* Round trips through Conservative Temperature.                           *)
(***************************************************************************)
\* the entry i of the batch is defined and its salinity is not negative
DefinedInFunnel(i) == ~SA[i].m /\ SA[i].v >= 0 /\ ~t[i].m /\ ~p[i].m

\* C14 (as claimed, the part on definedness): t_from_CT(SA, CT_from_t(SA, t, p), p)
\* is defined at every entry at which SA, t and p are defined, SA being
\* inside the funnel (0 included).
C14_Defined ==
    call.op = "t_round_trip" =>
        \A i \in Idx(SA) : DefinedInFunnel(i) => ~out.e[i].m

\* where the round trip of C14 is undefined: at the entries that are masked
\* or negative, and at a zero salinity that shares its batch with a positive one
t_round_trip_mask ==
    call.op = "t_round_trip" =>
        \A i \in Idx(SA) :
            out.e[i].m = \/ SA[i].m \/ SA[i].v < 0 \/ t[i].m \/ p[i].m
                         \/ SA[i].v = 0 /\ \E j \in Idx(SA) : ~SA[j].m /\ SA[j].v > 0

\* pt_from_CT(SA, CT_from_pt(SA, pt)) is undefined exactly at the entries at
\* which SA or pt is masked or SA is negative (the part of C15 on
\* definedness; its bound of 1e-9 is a property of the values of the
\* polynomials, which are terms here)
pt_round_trip_mask ==
    call.op = "pt_round_trip" =>
        \A i \in Idx(SA) : out.e[i].m = (SA[i].m \/ SA[i].v < 0 \/ t[i].m)

(***************************************************************************)
(* Negative Practical Salinity.                                            *)
(***************************************************************************)
SPOps == {"SA_from_SP", "Sstar_from_SP", "SA_Sstar_from_SP"}

\* the batch with every negative entry replaced by 0
NegativeToZero(A) ==
    Arr([i \in Idx(A) |-> IF ~A[i].m /\ A[i].v < 0 THEN Elem(0, FALSE) ELSE A[i]])

\* C16: SA_from_SP, Sstar_from_SP and SA_Sstar_from_SP give, on every batch,
\* what they give on the batch whose negative SP are replaced by 0
\* beforehand: the open-ocean formula and the Baltic correction both read SP
\* after the replacement.
C16_NegativeSPIsZero ==
    call.op \in SPOps => out = Run(call, NegativeToZero(SA), t, p)

\* a negative SP in the Baltic, corrected by the Baltic formula at SP = 0,
\* next to a negative SP in the open ocean
C16_Witness ==
    /\ call.op = "SA_from_SP" /\ ~out.raised
    /\ SA[1] = Elem(-1, FALSE) /\ SA[2] = Elem(-1, FALSE) /\ ~p[2].m
    /\ call.x[1] = 20 /\ call.y[1] = 59 /\ call.x[2] = 188
    /\ out.e[1] = Elem(Fn("SA_baltic", <<Num(0)>>), FALSE)
    /\ out.e[2].v = Fn("delta_SA", <<p[2].v, Num(188), Num(4)>>)

(***************************************************************************)
(* distance.                                                               *)
(***************************************************************************)
\* a holds n points in a row (a vector, or one row of a matrix)
RowOf(a, n) == a.ndim \in {1, 2} /\ NRows(a) = 1 /\ NCols(a) = n

\* p conforms to n points in a row
Conforms(P, n) == NCols(P) \in {1, n}

Triples == {0, 1, 2} \X {0, 1, 2} \X {0, 1, 2}

\* the triples for which _gibbs returns on the batch
ReturningTriples ==
    { tr \in Triples : ~gibbs(tr[1], tr[2], tr[3], SA, t, p).raised }

\* C18 (as claimed): the triples of {0,1,2}^3 for which _gibbs returns instead
\* of raising are nine.
C18_Claim ==
    (call.op = "_gibbs" /\ ~out.raised) => Cardinality(ReturningTriples) = 9

\* C18 (amended): the triples of {0,1,2}^3 for which _gibbs returns instead of
\* raising are ten, on every batch.
C18_TenSupported ==
    (call.op = "_gibbs" /\ ~out.raised) => Cardinality(ReturningTriples) = 10

\* the second derivative in pressure, the tenth triple, has returned
C18_Witness ==
    /\ call.op = "_gibbs" /\ <<call.ns, call.nt, call.npr>> = <<0, 0, 2>>
    /\ ~out.raised /\ Len(out.e) = BatchLen
    /\ <<0, 0, 2>> \in ReturningTriples

(***************************************************************************)
(* The passes of t_from_entropy.                                           *)
(***************************************************************************)
\* C19 (as claimed): t_from_entropy makes three passes like those of
\* potential_t: the Newton step taken again from the start of the pass with
\* the midpoint Jacobian is the result of the pass and the starting estimate
\* of the next pass, and the value returned (before the conversion to CT) is
\* the result of the third pass.
C19_Claim ==
    (call.op = "t_from_entropy" /\ call.t_type = "pt") =>
        /\ out.halves = 6
        /\ out.e = t_from_entropy_after(3, clamp(SA), t).t
        /\ \A n \in 1..2 : \A i \in Idx(SA) :
              Obs(t_from_entropy_after(n, clamp(SA), t).pt[i])
                  = Obs(t_from_entropy_after(n, clamp(SA), t).t[i])

(***************************************************************************)
(* The passes of potential_t.                                              *)
(***************************************************************************)
\* the reference pressure of the call, one entry for every entry of the batch
PRof == Broadcast(Num(call.pr), Len(SA))

\* what the claim says a pass makes of the estimate pt_old and the Jacobian J
ClaimedStep(pt_old, J, discrepancy, provisional, J_new) ==
    [pt |-> Map2(Sub, pt_old, Map2(Div, discrepancy, J_new)), J |-> J_new]

ClaimedMidpoint(pt_old, J, discrepancy, provisional) ==
    ClaimedStep(pt_old, J, discrepancy, provisional,
                Map1(Neg, gibbs(0, 2, 0, clamp(SA), Map2(Mid, provisional, pt_old), PRof).e))

ClaimedProvisional(pt_old, J, discrepancy) ==
    ClaimedMidpoint(pt_old, J, discrepancy, Map2(Sub, pt_old, Map2(Div, discrepancy, J)))

ClaimedPass(pt_old, J) ==
    ClaimedProvisional(pt_old, J,
                       Map2(Sub, entropy_part("ma", clamp(SA), pt_old, PRof).e,
                                 entropy_part("ma", clamp(SA), t, p).e))

ClaimedNext(st) == ClaimedPass(st.pt, st.J)

ClaimedStart(pt) == [pt |-> pt, J |-> Map2(dentropy_dt_ideal, NumArr(clamp(SA)), pt)]

\* the estimate and the Jacobian after the first pass, as claimed
ClaimedFirst ==
    ClaimedNext(ClaimedStart(Map4(pt_estimate, NumArr(clamp(SA)), t, p, PRof)))

\* C20: in each of the two passes of potential_t the discrepancy is
\* entropy_part(SA, pt_old, pr) - entropy_part(SA, t, p); the provisional
\* estimate is pt_old - discrepancy / Jacobian (the ideal estimate in the first
\* pass, the midpoint Jacobian of the first pass in the second); the Jacobian
\* becomes -_gibbs(0, 2, 0) at the midpoint of the provisional estimate and
\* pt_old, at pr; and the result pt_old - discrepancy / new Jacobian, applied
\* from pt_old, is pt_old of the next pass: the value returned is the result of
\* the second pass.
C20_PassStructure ==
    call.op = "potential_t" => out.halves = 4 /\ out.e = ClaimedNext(ClaimedFirst).pt

\* a call with pr # p on defined entries, at which each pass moves the estimate
C20_Witness ==
    /\ call.op = "potential_t" /\ call.pr = 1000
    /\ \A i \in Idx(SA) : DefinedPositive(i)
    /\ out.e = ClaimedNext(ClaimedFirst).pt
    /\ out.e[1].v # ClaimedFirst.pt[1].v
    /\ out.e[1].v # t[1].v

(***************************************************************************)
(* The passes of pt_from_CT.                                               *)
(***************************************************************************)
\* SA and CT of the batch as pt_from_CT works on them (line 3476)
CTArgs == strip_mask("ma", SA, <<t>>)
CT_SA == Plain(CTArgs.SA)
CT_CT == Plain(CTArgs.rest[1])

\* the CT discrepancy at the estimate pt
CTClaimedDiff(pt) == Map2(Sub, CT_from_pt(CT_SA, pt), CT_CT)

\* the half pass: one step from the result of the full pass with its Jacobian
CTClaimedHalf(st) ==
    [st EXCEPT !.pt = Map2(Sub, st.pt, Map2(Div, CTClaimedDiff(st.pt), st.J))]

\* the full pass ends: the Jacobian at the midpoint, the step from pt0 again
CTClaimedStep(pt0, CT_diff, J) ==
    [pt |-> Map2(Sub, pt0, Map2(Div, CT_diff, J)), J |-> J]

CTClaimedMidpoint(pt0, CT_diff, ptm) ==
    CTClaimedStep(pt0, CT_diff,
                  Map2(LAMBDA m, g : Fn("dCT_dpt", <<m, g>>),
                       ptm, gibbs_pt0_pt0("nd", CT_SA, ptm).e))

CTClaimedProvisional(pt0, CT_diff, J0) ==
    CTClaimedMidpoint(pt0, CT_diff, Map2(Mid, Map2(Sub, pt0, Map2(Div, CT_diff, J0)), pt0))

CTClaimedFull(pt0) ==
    CTClaimedProvisional(pt0, CTClaimedDiff(pt0),
                         Map3(LAMBDA sa, ct, pt : Fn("dCT_dpt_estimate", <<sa, ct, pt>>),
                              NumArr(CT_SA), CT_CT, pt0))

\* the result of the full pass on the rational-function estimate
CTClaimedFirst ==
    CTClaimedFull(Map2(LAMBDA sa, ct : Fn("pt_from_CT_estimate", <<sa, ct>>),
                       NumArr(CT_SA), CT_CT))

\* the values of an array, without its mask
Values(A) == Arr([i \in Idx(A) |-> A[i].v])

\* C21: pt_from_CT makes one full modified Newton pass and one half pass.
\* The full pass takes the Jacobian again at the midpoint with _gibbs_pt0_pt0
\* and applies the step again from the initial estimate; the half pass takes
\* the CT discrepancy again at the result of the full pass and applies one
\* step from that result with the Jacobian of the full pass; CT_from_pt is
\* called exactly twice.
C21_OneAndAHalfPasses ==
    call.op = "pt_from_CT" =>
        /\ out.halves = 3 /\ out.evals = 2
        /\ Values(out.e) = Values(CTClaimedHalf(CTClaimedFirst).pt)

\* a call on defined entries, in which the half pass moves the estimate
C21_Witness ==
    /\ call.op = "pt_from_CT" /\ out.evals = 2
    /\ \A i \in Idx(SA) : ~out.e[i].m
    /\ Values(out.e) = Values(CTClaimedHalf(CTClaimedFirst).pt)
    /\ out.e[1].v # CTClaimedFirst.pt[1].v

(***************************************************************************)
(* SP_from_Sstar in the Baltic.                                            *)
(***************************************************************************)
\* what _SP_from_SA_Baltic gives for the places of the call
BalticOfCall == SP_from_SA_Baltic(call.x, call.y, call.strict)

\* C22 (as claimed): when the Baltic helper returns a result, SP_from_Sstar
\* completes without error; the Baltic points of the result hold the Baltic
\* values and all other points the open-ocean values.
C22_Claim ==
    (call.op = "SP_from_Sstar" /\ BalticOfCall.kind = "array") =>
        /\ ~out.raised
        /\ out.e = SP_baltic_replaces(
                       SP_open_Sstar(broadcast_arrays(SA),
                                     delta_SA(broadcast_arrays(p), call.x, call.y)),
                       broadcast_arrays(SA), BalticOfCall)

(***************************************************************************)
(* The Gibbs object.                                                       *)
(***************************************************************************)
\* the function of the same name as the method op
FreeFunction(op) ==
    CASE op = "Gibbs.entropy" -> "entropy"
      [] op = "Gibbs.rho" -> "rho"
      [] op = "Gibbs.potential_t" -> "potential_t"
      [] op = "Gibbs.pot_rho" -> "pot_rho"

\* C23 (as claimed): Gibbs(SA, t, p).method(args) returns what the function
\* of the same name returns for (SA, t, p, args); potential_t(pr) and
\* pot_rho(pr) use the reference pressure pr they are given.
C23_Claim ==
    call.op \in GibbsOps =>
        out = Run([call EXCEPT !.op = FreeFunction(call.op)], SA, t, p)

(***************************************************************************)
(* The pressure at which distance takes the height of a segment.           *)
(***************************************************************************)
\* C24 (as claimed): the pressure used for the segment between the points j
\* and j + 1 is the mean of the pressures at j and j + 1, as the latitude
\* used is the mean of the latitudes at j and j + 1.
C24_Claim ==
    (call.op = "distance" /\ ~out.raised) =>
        \A r \in Idx(out.e) : \A j \in Idx(out.e[r]) :
            out.e[r][j] =
                Fn("distance", << view(call.x, r, j), view(call.x, r, j + 1),
                                  view(call.y, r, j), view(call.y, r, j + 1),
                                  Mid(view(call.z, r, j), view(call.z, r, j + 1)) >>)

(***************************************************************************)
(* What a caller of SA_Sstar_from_SP receives.                             *)
(***************************************************************************)
\* the pair the function itself gives for the arguments of the call
PairOfCall ==
    SA_Sstar_from_SP(atleast_1d(call.kind, SA), atleast_1d(call.kind, p),
                     atleast_1d(call.kind, call.x), atleast_1d(call.kind, call.y),
                     call.strict)

\* the entries of A that are not undefined, with their values
DefinedIn(A) == { <<i, A[i].v>> : i \in { j \in Idx(A) : ~A[j].m } }

\* C25 (as claimed): for values without shape as for arrays the caller of
\* SA_Sstar_from_SP receives the pair (SA, Sstar), an element undefined in SA
\* or Sstar being undefined in the pair.
C25_Claim ==
    (call.op = "decorated.SA_Sstar_from_SP" /\ ~out.raised) =>
        /\ Len(out.e.rows) = 2
        /\ \A k \in 1..2 :
              DefinedIn(out.e.rows[k]) =
                  DefinedIn(SubSeq(PairOfCall.e, (k - 1) * Len(out.e.rows[1]) + 1,
                                   k * Len(out.e.rows[1])))

(***************************************************************************)
(* The barrier through Central America.                                    *)
(***************************************************************************)
\* the neighbours of the sample k on the side of the sample
SameSide(k) == { j \in 1..4 : call.z[k][j] = call.y[k] }

\* the mean of the values of the sample k at the neighbours J
MeanOver(k, J) ==
    IF J = {} THEN NaN
    ELSE Fn("mean", SelectSeq([j \in 1..4 |-> call.x[j][k]],
                              LAMBDA v : \E j \in J : v = call.x[j][k]))

\* C26 (as claimed): _dsa_add_barrier treats every sample point of its batch:
\* every one of the four neighbouring values that lies on the other side of
\* the barrier line from the sample is excluded and replaced by the mean of
\* the remaining same-side neighbours of that point.
C26_Claim ==
    call.op = "_dsa_add_barrier" =>
        /\ ~out.raised
        /\ \A k \in Idx(call.y) : \A j \in 1..4 :
              out.e[j][k] = IF j \in SameSide(k) THEN call.x[j][k]
                            ELSE MeanOver(k, SameSide(k))

(***************************************************************************)
(* t_from_CT as a composition.                                             *)
(***************************************************************************)
\* the pressures of the call
PofCall == AtPressure(p, call.pr)

\* potential_t given the temperature pt0, the pressure 0 and the reference
\* pressure of the call
FromSurface(pt0) == potential_t(SA, pt0, Broadcast(Zero, Len(SA)), PofCall)

\* C27: t_from_CT(SA, CT, p) returns exactly what potential_t returns when
\* given SA, the temperature pt_from_CT(SA, CT), the in-situ pressure 0 and
\* the reference pressure p, with the same defined and undefined elements.
C27_Composition ==
    call.op = "t_from_CT" =>
        ~out.raised /\ out.e = Then(pt_from_CT(SA, t), FromSurface)

\* a call at 1000 dbar in which one element is undefined and the other is
\* defined and is not the potential temperature pt_from_CT gives
C27_Witness ==
    /\ call.op = "t_from_CT" /\ call.pr = 1000
    /\ out.e[1].m /\ ~out.e[2].m
    /\ out.e[2].v # pt_from_CT(SA, t)[2].v

(***************************************************************************)
(* A t_type that is neither 'pt' nor 'CT'.                                 *)
(***************************************************************************)
\* C28 (as claimed): with a t_type that is neither 'pt' nor 'CT' both
\* entropy_from_t and t_from_entropy end in an error, and neither returns a
\* value as if the t_type were one of the two.
C28_Claim ==
    (call.op \in {"entropy_from_t", "t_from_entropy"} /\ call.t_type \notin {"pt", "CT"}) =>
        out.raised

(***************************************************************************)
(* The undefined elements of SA_from_rho.                                  *)
(***************************************************************************)
\* C29 (as claimed): SA_from_rho reports an element undefined if and only if
\* an input at that element is undefined or its first estimate of SA lies
\* outside 0..120; the values reached in the two passes play no part.
C29_Claim ==
    call.op = "SA_from_rho" =>
        \A i \in Idx(out.e) :
            out.e[i].m <=> (call.x[i].m \/ t[i].m \/ p[i].m \/ Ior(call.x)[i])

(***************************************************************************)
(* What strip_mask returns.                                                *)
(***************************************************************************)
\* C30 (as claimed): for every SA it can be given (an array, a negative
\* value without shape, a non-negative value without shape) strip_mask
\* returns, without raising, the unmasked arguments followed by one mask.
C30_Claim ==
    call.op = "strip_mask" =>
        /\ ~out.raised
        /\ Len(out.e) = 4
        /\ \A k \in 1..3 : Len(out.e[k]) = Len(out.e[4])
        /\ \A i \in Idx(out.e[4]) : out.e[4][i] \in BOOLEAN

====
